---- MODULE Spec2Model ----
(***************************************************************************)
(* State-machine model of the wavebot broadcast relay (src/api/index.py):  *)
(* the key-value store, the admin's session state machine, the scheduled   *)
(* post queue, the broadcast fan-out with its retraction record, and the   *)
(* cron reconciliation.  Time is in seconds.  Handlers that read a shared  *)
(* key and write it back later are split at that point, so that            *)
(* overlapping invocations can interleave between the read and the write.  *)
(***************************************************************************)
EXTENDS Integers, Sequences, FiniteSets, TLC

\* ---------------------------------------------------------------- bounds
MaxChannels == 2      \* channel handles the admin can type
MaxBroadcasts == 2    \* broadcast ids (uuid4) drawn in one behaviour
MaxPosts    == 2      \* schedule ids (uuid4) drawn in one behaviour
MaxTicks    == 2      \* clock advances in one behaviour

\* ------------------------------------------------------ program constants
STATE_TTL     == 600       \* ex=600 of set_user_state
BROADCAST_TTL == 604800    \* ex=604800 of the broadcast record
MINUTE        == 60
HOUR          == 3600
DAY           == 86400
EAT_OFFSET    == 10800     \* timedelta(hours=3)

\* ----------------------------------------------------------- basic values
None == "None"                       \* a missing file id / markup
ADMIN_USER_ID == "admin"             \* the user id the deployment is configured with
Stranger == "stranger"               \* some other user id
NoText == <<>>                       \* text or caption that is None (falsy)
EmptyDict == [k \in {} |-> TRUE]     \* the Python dict {}

Range(s) == {s[i] : i \in 1..Len(s)}

\* channel handles, as the characters of the string
AllHandles == << <<"@", "a">>, <<"@", "b">>, <<"@", "c">>, <<"@", "d">> >>
Handles == {AllHandles[i] : i \in 1..MaxChannels}

SeqProcs  == {"p1"}
RaceProcs == {"p1", "p2"}

VARIABLES
    channels,         \* kv "wavebot:channels": list of channel handles
    watermark,        \* kv "wavebot:watermark": text, NoText when unset
    scheduled_posts,  \* kv "wavebot:scheduled_posts": list of posts
    broadcasts,       \* kv "wavebot:broadcasts": the broadcast counter
    user_state,       \* kv "state:<admin>": dict, EmptyDict when absent
    user_state_exp,   \* expiry time of the last "state:<admin>" written (0 once deleted)
    broadcast_rec,    \* kv "broadcast:<id>": id -> [entries, exp]
    now,              \* the clock (datetime.utcnow and the store's clock)
    ticks,            \* number of clock advances so far
    broadcast_ids,    \* number of broadcast ids (uuid4) drawn so far
    schedule_ids,     \* number of schedule ids (uuid4) drawn so far
    pc,               \* per invocation: where its handler stands
    loc,              \* per invocation: the handler's local variables
    bc,               \* observation: transport calls and admin report of the last fan-out
    last,             \* observation: the last response given to the caller
    hist,             \* observation: per schedule id, what happened to the post
    bhist             \* observation: per broadcast id that got a retract button, its use

vars == <<channels, watermark, scheduled_posts, broadcasts, user_state, user_state_exp,
          broadcast_rec, now, ticks, broadcast_ids, schedule_ids, pc, loc, bc, last, hist, bhist>>

kv_vars == <<channels, watermark, scheduled_posts, broadcasts, user_state, user_state_exp,
             broadcast_rec>>

Procs == DOMAIN pc

\* ------------------------------------------------------------- text helpers
RECURSIVE replace(_, _, _)
\* str.replace(old, new) for a one-character old
replace(s, old, new) ==
    IF s = <<>> THEN <<>>
    ELSE (IF Head(s) = old THEN new ELSE <<Head(s)>>) \o replace(Tail(s), old, new)

IsSpace(c) == c \in {" ", "\n"}

RECURSIVE lstrip(_)
lstrip(s) == IF s # <<>> /\ IsSpace(Head(s)) THEN lstrip(Tail(s)) ELSE s

RECURSIVE rstrip(_)
rstrip(s) ==
    IF s # <<>> /\ IsSpace(s[Len(s)]) THEN rstrip(SubSeq(s, 1, Len(s) - 1)) ELSE s

strip(s) == rstrip(lstrip(s))

\* Message.text_html: the text with &, < and > replaced by entities
text_html(s) == replace(replace(replace(s, "&", <<"&","a","m","p",";">>),
                                "<", <<"&","l","t",";">>),
                        ">", <<"&","g","t",";">>)

\* ---------------------------------------------------------------- messages
\* An inbound Telegram message: plain text or caption, and media file ids.
TextMessage(t) == [text |-> t, caption |-> NoText, photo |-> None, video |-> None,
                   document |-> None]
PhotoMessage   == [text |-> NoText, caption |-> NoText, photo |-> "ph1", video |-> None,
                   document |-> None]
CaptionedPhoto == [text |-> NoText, caption |-> <<"c">>, photo |-> "ph1", video |-> None,
                   document |-> None]
StickerMessage == [text |-> NoText, caption |-> NoText, photo |-> None, video |-> None,
                   document |-> None]

Messages == {TextMessage(<<"1", "m">>), TextMessage(<<"h", "i">>), PhotoMessage,
             StickerMessage}

BroadcastMessages == {TextMessage(<<"h", "i">>), PhotoMessage, StickerMessage}

TimedMessages == {TextMessage(<<"1", "m">>), TextMessage(<<"2", "m">>), TextMessage(<<"h", "i">>),
                  StickerMessage}

extract_message_data(message) ==
    [text             |-> text_html(message.text),
     caption          |-> text_html(message.caption),
     photo_file_id    |-> message.photo,
     video_file_id    |-> message.video,
     document_file_id |-> message.document,
     reply_markup_json |-> None]

\* ------------------------------------------------------------ time parsing
NoTime == -1                         \* the parsers' None

DigitChars == <<"0", "1", "2", "3", "4", "5", "6", "7", "8", "9">>
IsDigit(c) == c \in Range(DigitChars)
DigitVal(c) == (CHOOSE i \in 1..10 : DigitChars[i] = c) - 1

\* str.lower() on the letters that matter to the patterns
lower_char(c) ==
    CASE c = "M" -> "m" [] c = "H" -> "h" [] c = "D" -> "d"
      [] c = "A" -> "a" [] c = "P" -> "p" [] OTHER -> c
lower(s) == [i \in 1..Len(s) |-> lower_char(s[i])]

RECURSIVE to_int(_)
\* int() of a string of digits
to_int(s) == IF s = <<>> THEN 0 ELSE 10 * to_int(SubSeq(s, 1, Len(s) - 1)) + DigitVal(s[Len(s)])

RECURSIVE digit_prefix(_)
\* length of the longest run of digits s starts with (the greedy \d+)
digit_prefix(s) == IF s # <<>> /\ IsDigit(Head(s)) THEN 1 + digit_prefix(Tail(s)) ELSE 0

\* the slice s[from-1:to] of Python: clipped to the string, never an error
Slice(s, from, to) ==
    LET last_i == IF to < Len(s) THEN to ELSE Len(s)
    IN  IF from > last_i THEN <<>> ELSE SubSeq(s, from, last_i)

AllDigits(s, from, to) == \A i \in from..to : i <= Len(s) /\ IsDigit(s[i])
CharAt(s, i, c) == i <= Len(s) /\ s[i] = c

\* parse_relative_time: re.match(r"(\d+)([mhd])", time_str.lower()); the result
\* is the timedelta in seconds, NoTime for None
parse_relative_time(time_str) ==
    LET s == lower(time_str)
        n == digit_prefix(s)
    IN  IF n = 0 \/ n + 1 > Len(s) \/ s[n + 1] \notin {"m", "h", "d"} THEN NoTime
        ELSE LET value == to_int(SubSeq(s, 1, n))
                 unit  == s[n + 1]
             IN  CASE unit = "m" -> value * MINUTE
                   [] unit = "h" -> value * HOUR
                   [] unit = "d" -> value * DAY

\* days since 1970-01-01 of a proleptic Gregorian date (datetime.date arithmetic)
IsLeap(y) == (y % 4 = 0 /\ y % 100 # 0) \/ y % 400 = 0
DaysInMonth(y, m) ==
    IF m = 2 THEN (IF IsLeap(y) THEN 29 ELSE 28)
    ELSE IF m \in {4, 6, 9, 11} THEN 30 ELSE 31
DaysBeforeYear(y) == LET z == y - 1 IN z * 365 + (z \div 4) - (z \div 100) + (z \div 400)
RECURSIVE DaysBeforeMonth(_, _)
DaysBeforeMonth(y, m) == IF m = 1 THEN 0 ELSE DaysBeforeMonth(y, m - 1) + DaysInMonth(y, m - 1)
EpochOrdinal == DaysBeforeYear(1970) + 1
DateToDays(y, m, d) == DaysBeforeYear(y) + DaysBeforeMonth(y, m) + d - EpochOrdinal
\* datetime.strptime(...).date() succeeds
ValidDate(y, m, d) == y >= 1 /\ m \in 1..12 /\ d \in 1..DaysInMonth(y, m)

\* One way a date pattern can sit in s: start index i, the digit counts a and b of
\* its first two numbers, and which pattern (1: M/D/YYYY, 2: YYYY-M-D).
DateMatchAt(s, pat, i, a, b) ==
    IF pat = 1
    THEN /\ AllDigits(s, i, i + a - 1) /\ CharAt(s, i + a, "/")
         /\ AllDigits(s, i + a + 1, i + a + b) /\ CharAt(s, i + a + b + 1, "/")
         /\ AllDigits(s, i + a + b + 2, i + a + b + 5)
    ELSE /\ AllDigits(s, i, i + 3) /\ CharAt(s, i + 4, "-")
         /\ AllDigits(s, i + 5, i + 4 + a) /\ CharAt(s, i + 5 + a, "-")
         /\ AllDigits(s, i + 6 + a, i + 5 + a + b)

\* re.search: the leftmost start, and there the greedy choice (two digits before one)
DateSearch(s, pat) ==
    LET cands == {<<i, a, b>> \in (1..Len(s)) \X {1, 2} \X {1, 2} : DateMatchAt(s, pat, i, a, b)}
        Better(x, y) == \/ x[1] < y[1]
                        \/ x[1] = y[1] /\ x[2] > y[2]
                        \/ x[1] = y[1] /\ x[2] = y[2] /\ x[3] >= y[3]
    IN  IF cands = {} THEN <<>>
        ELSE LET c == CHOOSE x \in cands : \A y \in cands : Better(x, y)
                 i == c[1]  a == c[2]  b == c[3]
             IN  IF pat = 1
                 THEN [from |-> i, to |-> i + a + b + 5,
                       m |-> to_int(SubSeq(s, i, i + a - 1)),
                       d |-> to_int(SubSeq(s, i + a + 1, i + a + b)),
                       y |-> to_int(SubSeq(s, i + a + b + 2, i + a + b + 5))]
                 ELSE [from |-> i, to |-> i + 5 + a + b,
                       y |-> to_int(SubSeq(s, i, i + 3)),
                       m |-> to_int(SubSeq(s, i + 5, i + 4 + a)),
                       d |-> to_int(SubSeq(s, i + 6 + a, i + 5 + a + b))]

StartsWith(s, t) == Len(t) <= Len(s) /\ SubSeq(s, 1, Len(t)) = t

RECURSIVE remove_all(_, _)
\* str.replace(t, "") for a non-empty t
remove_all(s, t) ==
    IF s = <<>> THEN <<>>
    ELSE IF StartsWith(s, t) THEN remove_all(SubSeq(s, Len(t) + 1, Len(s)), t)
    ELSE <<Head(s)>> \o remove_all(Tail(s), t)

\* The (\d{1,2}):(\d{2}) head of both time patterns, matched at the start of s:
\* the number of hour digits, 0 when there is no match.
TimeHead(s) ==
    IF AllDigits(s, 1, 2) /\ CharAt(s, 3, ":") /\ AllDigits(s, 4, 5) THEN 2
    ELSE IF AllDigits(s, 1, 1) /\ CharAt(s, 2, ":") /\ AllDigits(s, 3, 4) THEN 1
    ELSE 0

\* a date pattern matched as dm and accepted by strptime: the date, and the text
\* with every occurrence of the matched date string taken out
date_found(stripped, dm) ==
    [date_provided |-> TRUE,
     target_date |-> DateToDays(dm.y, dm.m, dm.d),
     cleaned_str |-> strip(remove_all(stripped, SubSeq(stripped, dm.from, dm.to)))]

date_match_ok(dm) == dm # <<>> /\ ValidDate(dm.y, dm.m, dm.d)

\* the second date pattern, tried when the first gave no valid date
date_second(stripped, now_eat, dm) ==
    IF date_match_ok(dm) THEN date_found(stripped, dm)
    ELSE [date_provided |-> FALSE, target_date |-> now_eat \div DAY, cleaned_str |-> stripped]

\* the loop over date_patterns
date_first(stripped, now_eat, dm) ==
    IF date_match_ok(dm) THEN date_found(stripped, dm)
    ELSE date_second(stripped, now_eat, DateSearch(stripped, 2))

\* hour and minute of h:m with an am/pm period, or of h:m on the 24 hour clock;
\* hour is NoTime when the numbers are out of range
clock_time(h, m, period) ==
    IF period \in {<<"a", "m">>, <<"p", "m">>}
    THEN IF ~(1 <= h /\ h <= 12 /\ 0 <= m /\ m <= 59) THEN [hour |-> NoTime, minute |-> m]
         ELSE IF period = <<"p", "m">> /\ h # 12 THEN [hour |-> h + 12, minute |-> m]
         ELSE IF period = <<"a", "m">> /\ h = 12 THEN [hour |-> 0, minute |-> m]
         ELSE [hour |-> h, minute |-> m]
    ELSE IF ~(0 <= h /\ h <= 23 /\ 0 <= m /\ m <= 59) THEN [hour |-> NoTime, minute |-> m]
         ELSE [hour |-> h, minute |-> m]

\* the two re.match calls on time_str_cleaned, k the number of hour digits
time_of_day(time_str_cleaned, k) ==
    IF k = 0 THEN [hour |-> NoTime, minute |-> 0]
    ELSE clock_time(to_int(SubSeq(time_str_cleaned, 1, k)),
                    to_int(SubSeq(time_str_cleaned, k + 2, k + 3)),
                    Slice(time_str_cleaned, k + 4, k + 5))

\* faulty variant of resolve_eat: a time of day that has passed is not rolled on
resolve_eat_without_roll(date_provided, schedule_datetime_eat, now_eat) ==
    IF schedule_datetime_eat <= now_eat THEN NoTime
    ELSE schedule_datetime_eat - EAT_OFFSET

\* the roll to the next day, the rejection of a past date, the move to UTC
resolve_eat(date_provided, schedule_datetime_eat, now_eat) ==
    IF ~date_provided /\ schedule_datetime_eat <= now_eat
    THEN schedule_datetime_eat + DAY - EAT_OFFSET
    ELSE IF schedule_datetime_eat <= now_eat THEN NoTime
    ELSE schedule_datetime_eat - EAT_OFFSET

combine_eat(date, tod, now_eat) ==
    IF tod.hour = NoTime THEN NoTime
    ELSE resolve_eat(date.date_provided,
                     date.target_date * DAY + tod.hour * HOUR + tod.minute * MINUTE, now_eat)

time_part(date, time_str_cleaned, now_eat) ==
    IF date.cleaned_str = <<>> THEN NoTime
    ELSE combine_eat(date, time_of_day(time_str_cleaned, TimeHead(time_str_cleaned)), now_eat)

date_part(date, now_eat) ==
    time_part(date, replace(lower(date.cleaned_str), " ", <<>>), now_eat)

\* parse_datetime_eat with datetime.utcnow() = now_utc; the result is the UTC time
\* in seconds, NoTime for None
parse_datetime_eat(datetime_str, now_utc) ==
    date_part(date_first(strip(datetime_str), now_utc + EAT_OFFSET,
                         DateSearch(strip(datetime_str), 1)),
              now_utc + EAT_OFFSET)

\* ------------------------------------------------------------ session state
\* get_user_state: the stored dict, {} when the key is absent or has expired
get_user_state == IF user_state_exp > now THEN user_state ELSE EmptyDict

\* faulty variant of dict_update: the new fields replace the whole record
dict_replace(current_state, state_data) == state_data

\* dict.update
dict_update(current_state, state_data) ==
    [k \in DOMAIN current_state \cup DOMAIN state_data |->
        IF k \in DOMAIN state_data THEN state_data[k] ELSE current_state[k]]

\* faulty variant of set_user_state: the record is kept as long as a broadcast record
set_user_state_for_a_week(state_data) ==
    /\ user_state' = dict_update(get_user_state, state_data)
    /\ user_state_exp' = now + BROADCAST_TTL

\* set_user_state: read, merge, write back with ex=600
set_user_state(state_data) ==
    /\ user_state' = dict_update(get_user_state, state_data)
    /\ user_state_exp' = now + STATE_TTL

\* faulty variant of clear_user_state: the key is left in the store
clear_user_state_skipped == UNCHANGED <<user_state, user_state_exp>>

\* kv.delete(f"state:{user_id}")
clear_user_state ==
    /\ user_state' = EmptyDict
    /\ user_state_exp' = 0

\* state.get("action")
action_of(state) == IF "action" \in DOMAIN state THEN state.action ELSE None

\* update.effective_user.id == ADMIN_USER_ID
is_admin(user) == user = ADMIN_USER_ID

\* get_user_state(query.from_user.id): the key "state:<user>" of another user is
\* never written (the only write a callback makes needs a record to be there),
\* so it reads as {}
session_of(user) == IF is_admin(user) THEN get_user_state ELSE EmptyDict

\* clear_user_state(query.from_user.id): deleting the absent key of another
\* user changes nothing
clear_session_of(user) ==
    IF is_admin(user) THEN clear_user_state ELSE UNCHANGED <<user_state, user_state_exp>>

\* --------------------------------------------------------- channel registry
get_channels == channels

\* ---------------------------------------------------------- broadcast engine
HasText(t) == t # NoText
HasFile(f) == f # None

\* the watermark block of broadcast_message: "\n\n" + watermark, the three
\* replace calls in the order of the code, then caption, else text, else caption
apply_watermark(message_data, watermark_bytes) ==
    IF ~HasText(watermark_bytes) THEN message_data
    ELSE LET watermark_text == <<"\n", "\n">> \o watermark_bytes
             watermark_text_html ==
                 replace(replace(replace(watermark_text, "<", <<"&","l","t",";">>),
                                 ">", <<"&","g","t",";">>),
                         "&", <<"&","a","m","p",";">>)
         IN  IF HasText(message_data.caption)
             THEN [message_data EXCEPT !.caption = @ \o watermark_text_html]
             ELSE IF HasText(message_data.text)
             THEN [message_data EXCEPT !.text = @ \o watermark_text_html]
             ELSE [message_data EXCEPT !.caption = strip(watermark_text_html)]

\* faulty variant of send_primitive: the text is looked at before the files
send_primitive_text_first(message_data) ==
    IF HasText(message_data.text) THEN "send_message"
    ELSE IF HasFile(message_data.photo_file_id) THEN "send_photo"
    ELSE IF HasFile(message_data.video_file_id) THEN "send_video"
    ELSE IF HasFile(message_data.document_file_id) THEN "send_document"
    ELSE None

\* the if/elif chain that picks the transport primitive, None when no field is set
send_primitive(message_data) ==
    IF HasFile(message_data.photo_file_id) THEN "send_photo"
    ELSE IF HasFile(message_data.video_file_id) THEN "send_video"
    ELSE IF HasFile(message_data.document_file_id) THEN "send_document"
    ELSE IF HasText(message_data.text) THEN "send_message"
    ELSE None

RECURSIVE fan_out_stops_at_failure(_, _, _, _)
\* faulty variant of fan_out: the loop is left at the first send that raises
fan_out_stops_at_failure(chs, message_data, fails, message_id) ==
    IF chs = <<>> \/ send_primitive(message_data) = None
    THEN [calls |-> <<>>, sent_messages |-> <<>>, failed_channels |-> chs]
    ELSE IF Head(chs) \in fails
    THEN [calls |-> <<[chat_id |-> Head(chs), method |-> send_primitive(message_data),
                       ok |-> FALSE]>>,
          sent_messages |-> <<>>, failed_channels |-> <<Head(chs)>>]
    ELSE LET rest == fan_out_stops_at_failure(Tail(chs), message_data, fails, message_id)
         IN  [rest EXCEPT !.calls = <<[chat_id |-> Head(chs),
                                        method |-> send_primitive(message_data),
                                        ok |-> TRUE]>> \o @,
                          !.sent_messages = <<[chat_id |-> Head(chs),
                                               message_id |-> message_id]>> \o @]

RECURSIVE fan_out(_, _, _, _)
\* the for loop over the channels: fails are the channels whose transport call
\* raises, message_id is the id the transport gives the sent copies.  calls is
\* what the transport saw, sent_messages and failed_channels are the two lists.
fan_out(chs, message_data, fails, message_id) ==
    IF chs = <<>> THEN [calls |-> <<>>, sent_messages |-> <<>>, failed_channels |-> <<>>]
    ELSE LET channel == Head(chs)
             method == send_primitive(message_data)
             rest == fan_out(Tail(chs), message_data, fails, message_id)
         IN  IF method = None
             THEN [rest EXCEPT !.failed_channels = <<channel>> \o @]
             ELSE IF channel \in fails
             THEN [rest EXCEPT !.calls = <<[chat_id |-> channel, method |-> method,
                                            ok |-> FALSE]>> \o @,
                               !.failed_channels = <<channel>> \o @]
             ELSE [rest EXCEPT !.calls = <<[chat_id |-> channel, method |-> method,
                                            ok |-> TRUE]>> \o @,
                               !.sent_messages = <<[chat_id |-> channel,
                                                    message_id |-> message_id]>> \o @]

\* faulty variant of store_broadcast: one key for every broadcast
store_broadcast_one_key(recs, broadcast_id, sent_messages) ==
    [k \in DOMAIN recs \cup {1} |->
        IF k = 1 THEN [entries |-> sent_messages, exp |-> now + BROADCAST_TTL] ELSE recs[k]]

\* kv.set(f"broadcast:{broadcast_id}", json.dumps(sent_messages), ex=604800)
store_broadcast(recs, broadcast_id, sent_messages) ==
    [k \in DOMAIN recs \cup {broadcast_id} |->
        IF k = broadcast_id THEN [entries |-> sent_messages, exp |-> now + BROADCAST_TTL]
        ELSE recs[k]]

\* faulty variant of incr_broadcasts: a broadcast counts twice
incr_broadcasts_by_two(n) == n + 2

\* kv.incr("wavebot:broadcasts")
incr_broadcasts(n) == n + 1

\* faulty variant of any_sent: the record is written whatever the loop achieved
any_attempt(sent_messages) == TRUE

\* if sent_messages:
any_sent(sent_messages) == sent_messages # <<>>

\* the admin holds a retract button for broadcast_id once the report that
\* carries it has gone through
button_shown(h, broadcast_id) ==
    [k \in DOMAIN h \cup {broadcast_id} |->
        IF k = broadcast_id THEN [retracted |-> FALSE] ELSE h[k]]

NoBroadcast == [kind |-> "none", payload |-> EmptyDict, sent_as |-> EmptyDict,
                registry |-> <<>>, calls |-> <<>>, sent |-> 0, failed |-> <<>>,
                broadcast_id |-> 0, notified |-> FALSE]

\* broadcast_message(context, message_data).  fails: the channels whose send
\* raises; notify_ok: whether the closing send_message to the admin goes through
\* (when it does not, the function raises after its store writes).
broadcast_message(message_data, fails, notify_ok) ==
    LET chs == get_channels
    IN  IF chs = <<>>
        THEN /\ bc' = [NoBroadcast EXCEPT !.kind = "no_channels", !.payload = message_data,
                                          !.notified = notify_ok]
             /\ UNCHANGED <<broadcast_rec, broadcasts, broadcast_ids, bhist>>
        ELSE LET sent_as == apply_watermark(message_data, watermark)
                 broadcast_id == broadcast_ids + 1
                 r == fan_out(chs, sent_as, fails, broadcast_id)
             IN  /\ broadcast_ids < MaxBroadcasts
                 /\ broadcast_ids' = broadcast_id
                 /\ IF any_sent(r.sent_messages)
                    THEN /\ broadcast_rec' = store_broadcast(broadcast_rec, broadcast_id,
                                                             r.sent_messages)
                         /\ broadcasts' = incr_broadcasts(broadcasts)
                         /\ bhist' = IF notify_ok THEN button_shown(bhist, broadcast_id)
                                     ELSE bhist
                    ELSE UNCHANGED <<broadcast_rec, broadcasts, bhist>>
                 /\ bc' = [kind |-> IF any_sent(r.sent_messages) THEN "sent" ELSE "not_sent",
                           payload |-> message_data, sent_as |-> sent_as, registry |-> chs,
                           calls |-> r.calls, sent |-> Len(r.sent_messages),
                           failed |-> r.failed_channels,
                           broadcast_id |-> broadcast_id,
                           notified |-> notify_ok]

\* ------------------------------------------------------------------- state
Loc0 == [state |-> EmptyDict, message_data |-> EmptyDict, all_posts |-> <<>>,
         posts_to_send |-> <<>>, remaining_posts |-> <<>>, now_utc |-> 0, i |-> 0,
         engine_calls |-> <<>>, schedule_id |-> 0, user |-> ADMIN_USER_ID,
         prompt |-> EmptyDict]

\* what the session key held when the handler started: the action of the live
\* record, "expired" when the last record written ran out, None otherwise
session_before ==
    IF user_state_exp > now THEN action_of(user_state)
    ELSE IF user_state_exp # 0 THEN "expired"
    ELSE None

\* a response: the handler (op), what it answered (reply), who called it (user),
\* the input it was given (args: command arguments or message text) and what the
\* session key held when it started (was)
NoResponse == [op |-> "none", reply |-> "none", status |-> 0, id |-> 0, n |-> 0,
               calls |-> <<>>, user |-> ADMIN_USER_ID, args |-> <<>>, was |-> None]
Response(op, reply) == [NoResponse EXCEPT !.op = op, !.reply = reply, !.was = session_before]
ResponseTo(user, op, reply) ==
    IF is_admin(user) THEN Response(op, reply)
    ELSE [NoResponse EXCEPT !.op = op, !.reply = reply, !.user = user]

InitStore ==
    /\ channels = <<>>
    /\ watermark = NoText
    /\ scheduled_posts = <<>>
    /\ broadcasts = 0
    /\ user_state = EmptyDict
    /\ user_state_exp = 0
    /\ broadcast_rec = EmptyDict
    /\ now = 0
    /\ ticks = 0
    /\ broadcast_ids = 0
    /\ schedule_ids = 0
    /\ bc = NoBroadcast
    /\ last = NoResponse
    /\ hist = EmptyDict
    /\ bhist = EmptyDict

\* one invocation at a time
Init == InitStore /\ pc = [p \in SeqProcs |-> "idle"] /\ loc = [p \in SeqProcs |-> Loc0]

\* two invocations that may overlap
InitRace == InitStore /\ pc = [p \in RaceProcs |-> "idle"] /\ loc = [p \in RaceProcs |-> Loc0]

\* bc and last hold what the system has just put out; Deliver clears them, and
\* nothing else runs before it has, so that they describe one step only.
Quiet == bc = NoBroadcast /\ last = NoResponse
At(p, label) == Quiet /\ pc[p] = label
Idle(p) == At(p, "idle")
Goto(p, label, locals) == pc' = [pc EXCEPT ![p] = label] /\ loc' = [loc EXCEPT ![p] = locals]
Done(p) == Goto(p, "idle", Loc0)

\* ------------------------------------------------------------------- clock
\* Time passes by d seconds; the store drops the keys whose ex has run out.
Tick(d) ==
    /\ Quiet
    /\ ticks < MaxTicks
    /\ ticks' = ticks + 1
    /\ now' = now + d
    /\ user_state' = IF user_state_exp <= now + d THEN EmptyDict ELSE user_state
    /\ UNCHANGED user_state_exp
    /\ broadcast_rec' = [k \in {j \in DOMAIN broadcast_rec : broadcast_rec[j].exp > now + d}
                           |-> broadcast_rec[k]]
    /\ UNCHANGED <<channels, watermark, scheduled_posts, broadcasts, broadcast_ids, schedule_ids, pc, loc, bc,
                   last, hist, bhist>>

\* --------------------------------------------------------- command handlers
\* the handlers that open with "if not is_admin(update): return": the twelve
\* commands and process_message
GatedHandlers == {"start", "help", "cancel", "addchannel", "removechannel", "listchannels",
                  "stats", "schedule", "scheduledposts", "set_watermark", "view_watermark",
                  "remove_watermark", "message"}

\* a gated handler called by somebody else than the admin: it returns at its
\* first line, with no reply
not_admin_return(p, user, op) ==
    /\ Idle(p)
    /\ ~is_admin(user)
    /\ last' = ResponseTo(user, op, "none")
    /\ UNCHANGED <<channels, watermark, scheduled_posts, broadcasts, user_state, user_state_exp,
                   broadcast_rec, now, ticks, broadcast_ids, schedule_ids, pc, loc, bc, hist, bhist>>

cancel_command(p) ==
    /\ Idle(p)
    /\ clear_user_state
    /\ last' = Response("cancel", "cancelled")
    /\ UNCHANGED <<channels, watermark, scheduled_posts, broadcasts, broadcast_rec, now,
                   ticks, broadcast_ids, schedule_ids, pc, loc, bc, hist, bhist>>

\* faulty variant of startswith_at: any first character will do
startswith_anything(channel_name) == channel_name # <<>>

\* channel_name.startswith('@')
startswith_at(channel_name) == channel_name # <<>> /\ Head(channel_name) = "@"

\* faulty variant of is_registered: the membership test never finds the handle
never_registered(chs, channel_name) == FALSE

\* channel_name in channels
is_registered(chs, channel_name) == channel_name \in Range(chs)

\* /addchannel with the words after the command in args; args[0] of an empty
\* args raises IndexError, which the handler answers with the usage text
add_channel_command(p, args) ==
    /\ Idle(p)
    /\ IF args = <<>>
       THEN /\ UNCHANGED channels
            /\ last' = [Response("addchannel", "usage") EXCEPT !.args = args]
       ELSE IF ~startswith_at(args[1])
       THEN /\ UNCHANGED channels
            /\ last' = [Response("addchannel", "invalid_name") EXCEPT !.args = args]
       ELSE IF ~is_registered(get_channels, args[1])
       THEN /\ channels' = Append(get_channels, args[1])
            /\ last' = [Response("addchannel", "registered") EXCEPT !.args = args]
       ELSE /\ UNCHANGED channels
            /\ last' = [Response("addchannel", "already_registered") EXCEPT !.args = args]
    /\ UNCHANGED <<watermark, scheduled_posts, broadcasts, user_state, user_state_exp,
                   broadcast_rec, now, ticks, broadcast_ids, schedule_ids, pc, loc, bc, hist, bhist>>

\* list.remove(x): drops the first occurrence
list_remove(l, x) ==
    LET i == CHOOSE j \in 1..Len(l) : l[j] = x /\ \A k \in 1..(j - 1) : l[k] # x
    IN  SubSeq(l, 1, i - 1) \o SubSeq(l, i + 1, Len(l))

\* /removechannel with the words after the command in args
remove_channel_command(p, args) ==
    /\ Idle(p)
    /\ IF args = <<>>
       THEN /\ UNCHANGED channels
            /\ last' = [Response("removechannel", "usage") EXCEPT !.args = args]
       ELSE IF is_registered(get_channels, args[1])
       THEN /\ channels' = list_remove(get_channels, args[1])
            /\ last' = [Response("removechannel", "removed") EXCEPT !.args = args]
       ELSE /\ UNCHANGED channels
            /\ last' = [Response("removechannel", "not_found") EXCEPT !.args = args]
    /\ UNCHANGED <<watermark, scheduled_posts, broadcasts, user_state, user_state_exp,
                   broadcast_rec, now, ticks, broadcast_ids, schedule_ids, pc, loc, bc, hist, bhist>>

RECURSIVE join(_)
\* " ".join(words)
join(words) ==
    IF words = <<>> THEN <<>>
    ELSE IF Len(words) = 1 THEN words[1]
    ELSE words[1] \o <<" ">> \o join(Tail(words))

\* /set_watermark with the words after the command in args
set_watermark_command(p, args) ==
    /\ Idle(p)
    /\ IF args = <<>>
       THEN /\ UNCHANGED watermark
            /\ last' = [Response("set_watermark", "usage") EXCEPT !.args = args]
       ELSE /\ watermark' = join(args)
            /\ last' = [Response("set_watermark", "set") EXCEPT !.args = args]
    /\ UNCHANGED <<channels, scheduled_posts, broadcasts, user_state, user_state_exp,
                   broadcast_rec, now, ticks, broadcast_ids, schedule_ids, pc, loc, bc, hist, bhist>>

\* /remove_watermark
remove_watermark_command(p) ==
    /\ Idle(p)
    /\ IF HasText(watermark)
       THEN /\ watermark' = NoText
            /\ last' = Response("remove_watermark", "removed")
       ELSE /\ UNCHANGED watermark
            /\ last' = Response("remove_watermark", "none_set")
    /\ UNCHANGED <<channels, scheduled_posts, broadcasts, user_state, user_state_exp,
                   broadcast_rec, now, ticks, broadcast_ids, schedule_ids, pc, loc, bc, hist, bhist>>

schedule_command(p) ==
    /\ Idle(p)
    /\ set_user_state([action |-> "awaiting_schedule_time"])
    /\ last' = Response("schedule", "ask_time")
    /\ UNCHANGED <<channels, watermark, scheduled_posts, broadcasts, broadcast_rec, now,
                   ticks, broadcast_ids, schedule_ids, pc, loc, bc, hist, bhist>>

\* ------------------------------------------------------------ post history
\* hist[id]: what has been observed of the scheduled post id: its enqueue was
\* acknowledged to the admin, how often it was handed to the broadcast engine
\* (counted up to 2), whether a cancel of it reported success, and where the
\* other invocations stood when invocation p wrote it to the queue.
NewPost(p) == [acked |-> TRUE, dispatched |-> 0, cancelled |-> FALSE,
               raced_with |-> {pc[q] : q \in Procs \ {p}} \ {"idle"}]
hist_put(h, id, rec) == [k \in DOMAIN h \cup {id} |-> IF k = id THEN rec ELSE h[k]]
hist_dispatched(h, id) ==
    IF id \in DOMAIN h
    THEN [h EXCEPT ![id].dispatched = IF @ < 2 THEN @ + 1 ELSE @]
    ELSE h
hist_cancelled(h, id) == IF id \in DOMAIN h THEN [h EXCEPT ![id].cancelled = TRUE] ELSE h

\* ---------------------------------------------------------- process_message
\* faulty variant of time_or_delay: a delay of no length is taken as well
time_or_delay_of_any_length(future_time, delay, now_utc) ==
    IF future_time # NoTime THEN future_time
    ELSE IF delay # NoTime THEN now_utc + delay
    ELSE NoTime

\* the two parsers as process_message chains them; NoTime when both give up
time_or_delay(future_time, delay, now_utc) ==
    IF future_time # NoTime THEN future_time
    ELSE IF delay # NoTime /\ delay # 0 THEN now_utc + delay
    ELSE NoTime

resolve_time(time_str, now_utc) ==
    time_or_delay(parse_datetime_eat(time_str, now_utc), parse_relative_time(time_str), now_utc)

\* faulty variant of new_post: the post is timed with the clock, not the session
new_post_timed_now(schedule_id, message_data, state) ==
    [schedule_id |-> schedule_id, message_data |-> message_data, schedule_time_utc |-> now]

\* the post process_message builds in awaiting_schedule_message
new_post(schedule_id, message_data, state) ==
    [schedule_id |-> schedule_id, message_data |-> message_data,
     schedule_time_utc |-> state.schedule_time_utc]

\* process_message up to its first store write.  In awaiting_schedule_message the
\* handler has read the session and the queue and goes on in enqueue_write.
process_message(p, message) ==
    /\ Idle(p)
    /\ LET state == get_user_state
           action == action_of(state)
       IN  IF action = "awaiting_schedule_time"
           THEN /\ IF ~HasText(message.text)
                   THEN \* message.text is None: parse_datetime_eat raises on .strip()
                        /\ last' = [Response("message", "error") EXCEPT !.args = message.text]
                        /\ UNCHANGED <<user_state, user_state_exp>>
                   ELSE IF resolve_time(message.text, now) = NoTime
                   THEN /\ last' = [Response("message", "bad_time") EXCEPT !.args = message.text]
                        /\ UNCHANGED <<user_state, user_state_exp>>
                   ELSE /\ set_user_state([action |-> "awaiting_schedule_message",
                                           schedule_time_utc |-> resolve_time(message.text, now)])
                        /\ last' = [Response("message", "ask_message") EXCEPT !.args = message.text]
                /\ UNCHANGED <<pc, loc>>
           ELSE IF action = "awaiting_schedule_message"
           THEN /\ Goto(p, "enqueue_write",
                        [Loc0 EXCEPT !.state = state, !.all_posts = scheduled_posts,
                                     !.message_data = extract_message_data(message)])
                /\ UNCHANGED <<user_state, user_state_exp, last>>
           ELSE /\ set_user_state([action |-> "confirm_broadcast",
                                   message_to_send |-> extract_message_data(message)])
                /\ last' = [Response("message", "confirm_prompt") EXCEPT !.args = message.text]
                /\ UNCHANGED <<pc, loc>>
    /\ UNCHANGED <<channels, watermark, scheduled_posts, broadcasts, broadcast_rec, now,
                   ticks, broadcast_ids, schedule_ids, bc, hist, bhist>>

\* faulty variant of enqueue_posts: the new post is not appended
enqueue_posts_forgets(posts, post) == posts

\* posts.append(new_post)
enqueue_posts(posts, post) == Append(posts, post)

\* the append, the write of the whole queue, the clear of the session, the reply

enqueue_write(p) ==
    /\ At(p, "enqueue_write")
    /\ schedule_ids < MaxPosts
    /\ schedule_ids' = schedule_ids + 1
    /\ scheduled_posts' = enqueue_posts(loc[p].all_posts,
                                        new_post(schedule_ids + 1, loc[p].message_data,
                                                 loc[p].state))
    /\ clear_user_state
    /\ last' = [Response("message", "scheduled") EXCEPT !.id = schedule_ids + 1]
    /\ hist' = hist_put(hist, schedule_ids + 1, NewPost(p))
    /\ Done(p)
    /\ UNCHANGED <<channels, watermark, broadcasts, broadcast_rec, now, ticks, broadcast_ids,
                   bc, bhist>>

\* --------------------------------------------------- button_callback_handler
\* faulty variant of awaits_confirmation: no session is taken as waiting
awaits_confirmation_never(state) == FALSE

\* state.get("action") == "confirm_broadcast"
awaits_confirmation(state) == action_of(state) = "confirm_broadcast"

\* data == "broadcast_now": the read of the session.  prompt is the captured
\* message whose confirmation prompt carries the pressed button; callback_data
\* is the same for every prompt, and the handler only edits the prompt's text.
button_broadcast_now_under(p, user, prompt) ==
    /\ Idle(p)
    /\ LET state == session_of(user)
       IN  IF awaits_confirmation(state)
           THEN /\ Goto(p, "send_now", [Loc0 EXCEPT !.state = state, !.user = user,
                                                    !.prompt = prompt])
                /\ UNCHANGED last
           ELSE /\ last' = [ResponseTo(user, "broadcast_now", "expired") EXCEPT !.args = prompt]
                /\ UNCHANGED <<pc, loc>>
    /\ UNCHANGED <<channels, watermark, scheduled_posts, broadcasts, user_state,
                   user_state_exp, broadcast_rec, now, ticks, broadcast_ids, schedule_ids, bc, hist, bhist>>

button_broadcast_now_by(p, user) == button_broadcast_now_under(p, user, EmptyDict)

button_broadcast_now(p) == button_broadcast_now_by(p, ADMIN_USER_ID)

\* data == "broadcast_now": the fan-out and, unless it raised, the clear
send_now(p, fails, notify_ok) ==
    /\ At(p, "send_now")
    /\ broadcast_message(loc[p].state.message_to_send, fails, notify_ok)
    /\ IF notify_ok
       THEN /\ clear_user_state
            /\ last' = [Response("broadcast_now", "sending") EXCEPT !.args = loc[p].prompt]
       ELSE /\ UNCHANGED <<user_state, user_state_exp>>
            /\ last' = [Response("broadcast_now", "error") EXCEPT !.args = loc[p].prompt]
    /\ Done(p)
    /\ UNCHANGED <<channels, watermark, scheduled_posts, now, ticks, schedule_ids, hist>>

\* data == "broadcast_schedule"
button_broadcast_schedule_by(p, user) ==
    /\ Idle(p)
    /\ IF awaits_confirmation(session_of(user))
       THEN /\ set_user_state([action |-> "awaiting_schedule_time"])
            /\ last' = ResponseTo(user, "broadcast_schedule", "ask_time")
       ELSE /\ UNCHANGED <<user_state, user_state_exp>>
            /\ last' = ResponseTo(user, "broadcast_schedule", "expired")
    /\ UNCHANGED <<channels, watermark, scheduled_posts, broadcasts, broadcast_rec, now,
                   ticks, broadcast_ids, schedule_ids, pc, loc, bc, hist, bhist>>

button_broadcast_schedule(p) == button_broadcast_schedule_by(p, ADMIN_USER_ID)

\* data == "broadcast_cancel"
button_broadcast_cancel_by(p, user) ==
    /\ Idle(p)
    /\ clear_session_of(user)
    /\ last' = ResponseTo(user, "broadcast_cancel", "cancelled")
    /\ UNCHANGED <<channels, watermark, scheduled_posts, broadcasts, broadcast_rec, now,
                   ticks, broadcast_ids, schedule_ids, pc, loc, bc, hist, bhist>>

button_broadcast_cancel(p) == button_broadcast_cancel_by(p, ADMIN_USER_ID)

RECURSIVE first_failure(_, _)
\* the index of the first entry of messages that is in fails, Len + 1 when none is
first_failure(messages, fails) ==
    IF messages = <<>> \/ Head(messages) \in fails THEN 1
    ELSE 1 + first_failure(Tail(messages), fails)

\* faulty variant of delete_calls: the loop is left at the first delete that raises
delete_calls_stop_at_failure(messages, fails) ==
    [i \in 1..(IF first_failure(messages, fails) <= Len(messages)
               THEN first_failure(messages, fails) ELSE Len(messages)) |->
        [chat_id |-> messages[i].chat_id, message_id |-> messages[i].message_id,
         ok |-> messages[i] \notin fails]]

\* the delete loop: one bot.delete_message per recorded entry; fails are the
\* entries whose call raises
delete_calls(messages, fails) ==
    [i \in 1..Len(messages) |->
        [chat_id |-> messages[i].chat_id, message_id |-> messages[i].message_id,
         ok |-> messages[i] \notin fails]]

deleted_count(calls) == Cardinality({i \in 1..Len(calls) : calls[i].ok})

\* faulty variant of delete_broadcast: the record is left in the store
delete_broadcast_skipped(recs, broadcast_id) == recs

\* kv.delete(f"broadcast:{broadcast_id}")
delete_broadcast(recs, broadcast_id) == [k \in DOMAIN recs \ {broadcast_id} |-> recs[k]]

\* data.startswith("delete_")
button_delete_by(p, user, broadcast_id, fails) ==
    /\ Idle(p)
    /\ IF broadcast_id \notin DOMAIN broadcast_rec
       THEN /\ last' = [ResponseTo(user, "delete", "unavailable") EXCEPT !.id = broadcast_id]
            /\ UNCHANGED <<broadcast_rec, bhist>>
       ELSE LET messages == broadcast_rec[broadcast_id].entries
                calls == delete_calls(messages, fails)
            IN  /\ last' = [ResponseTo(user, "delete", "deleted") EXCEPT !.id = broadcast_id,
                                  !.n = deleted_count(calls), !.calls = calls]
                /\ broadcast_rec' = delete_broadcast(broadcast_rec, broadcast_id)
                /\ bhist' = [bhist EXCEPT ![broadcast_id].retracted = TRUE]
    /\ UNCHANGED <<channels, watermark, scheduled_posts, broadcasts, user_state,
                   user_state_exp, now, ticks, broadcast_ids, schedule_ids, pc, loc, bc, hist>>

button_delete(p, broadcast_id, fails) == button_delete_by(p, ADMIN_USER_ID, broadcast_id, fails)

\* faulty variant of without_post: the filter lets no post through
without_post_or_any_other(posts, schedule_id) == <<>>

\* [p for p in posts if p['schedule_id'] != schedule_id_to_cancel]
RECURSIVE without_post(_, _)
without_post(posts, schedule_id) ==
    IF posts = <<>> THEN <<>>
    ELSE IF Head(posts).schedule_id # schedule_id
    THEN <<Head(posts)>> \o without_post(Tail(posts), schedule_id)
    ELSE without_post(Tail(posts), schedule_id)

\* data.startswith("cancel_scheduled_"): the read of the queue and the filter
button_cancel_scheduled_by(p, user, schedule_id) ==
    /\ Idle(p)
    /\ LET posts == scheduled_posts
           updated_posts == without_post(posts, schedule_id)
       IN  IF Len(updated_posts) < Len(posts)
           THEN /\ Goto(p, "cancel_write", [Loc0 EXCEPT !.all_posts = updated_posts,
                                                        !.schedule_id = schedule_id,
                                                        !.user = user])
                /\ UNCHANGED last
           ELSE /\ last' = [ResponseTo(user, "cancel_scheduled", "not_found")
                               EXCEPT !.id = schedule_id]
                /\ UNCHANGED <<pc, loc>>
    /\ UNCHANGED <<channels, watermark, scheduled_posts, broadcasts, user_state,
                   user_state_exp, broadcast_rec, now, ticks, broadcast_ids, schedule_ids, bc, hist, bhist>>

button_cancel_scheduled(p, schedule_id) ==
    button_cancel_scheduled_by(p, ADMIN_USER_ID, schedule_id)

\* data.startswith("cancel_scheduled_"): the write of the filtered queue, the answer
cancel_write(p) ==
    /\ At(p, "cancel_write")
    /\ scheduled_posts' = loc[p].all_posts
    /\ last' = [ResponseTo(loc[p].user, "cancel_scheduled", "cancelled")
                   EXCEPT !.id = loc[p].schedule_id]
    /\ hist' = hist_cancelled(hist, loc[p].schedule_id)
    /\ Done(p)
    /\ UNCHANGED <<channels, watermark, broadcasts, user_state, user_state_exp,
                   broadcast_rec, now, ticks, broadcast_ids, schedule_ids, bc, bhist>>

\* ------------------------------------------------------------ cron_job_runner
RECURSIVE due_posts_strictly_past(_, _)
\* faulty variant of due_posts: a post whose time is exactly now is not taken
due_posts_strictly_past(all_posts, now_utc) ==
    IF all_posts = <<>> THEN <<>>
    ELSE IF Head(all_posts).schedule_time_utc < now_utc
    THEN <<Head(all_posts)>> \o due_posts_strictly_past(Tail(all_posts), now_utc)
    ELSE due_posts_strictly_past(Tail(all_posts), now_utc)

\* faulty variant of due_posts: every queued post is taken
due_posts_unfiltered(all_posts, now_utc) == all_posts

RECURSIVE due_posts(_, _)
\* [p for p in all_posts if fromisoformat(p['schedule_time_utc']) <= now_utc]
due_posts(all_posts, now_utc) ==
    IF all_posts = <<>> THEN <<>>
    ELSE IF Head(all_posts).schedule_time_utc <= now_utc
    THEN <<Head(all_posts)>> \o due_posts(Tail(all_posts), now_utc)
    ELSE due_posts(Tail(all_posts), now_utc)

RECURSIVE pending_posts_after_next_minute(_, _)
\* faulty variant of pending_posts: a post due within the next minute is not kept
pending_posts_after_next_minute(all_posts, now_utc) ==
    IF all_posts = <<>> THEN <<>>
    ELSE IF Head(all_posts).schedule_time_utc > now_utc + MINUTE
    THEN <<Head(all_posts)>> \o pending_posts_after_next_minute(Tail(all_posts), now_utc)
    ELSE pending_posts_after_next_minute(Tail(all_posts), now_utc)

RECURSIVE pending_posts(_, _)
\* [p for p in all_posts if fromisoformat(p['schedule_time_utc']) > now_utc]
pending_posts(all_posts, now_utc) ==
    IF all_posts = <<>> THEN <<>>
    ELSE IF Head(all_posts).schedule_time_utc > now_utc
    THEN <<Head(all_posts)>> \o pending_posts(Tail(all_posts), now_utc)
    ELSE pending_posts(Tail(all_posts), now_utc)

\* the read of the queue, the partition, and the two early returns
cron_job_runner(p) ==
    /\ Idle(p)
    /\ LET all_posts == scheduled_posts
           posts_to_send == due_posts(all_posts, now)
           remaining_posts == pending_posts(all_posts, now)
       IN  IF all_posts = <<>>
           THEN /\ last' = [Response("cron", "No scheduled posts.") EXCEPT !.status = 200]
                /\ UNCHANGED <<pc, loc>>
           ELSE IF posts_to_send = <<>>
           THEN /\ last' = [Response("cron", "Processed") EXCEPT !.status = 200]
                /\ UNCHANGED <<pc, loc>>
           ELSE /\ Goto(p, "cron_send",
                        [Loc0 EXCEPT !.all_posts = all_posts, !.posts_to_send = posts_to_send,
                                     !.remaining_posts = remaining_posts, !.now_utc = now,
                                     !.i = 1])
                /\ UNCHANGED last
    /\ UNCHANGED <<channels, watermark, scheduled_posts, broadcasts, user_state,
                   user_state_exp, broadcast_rec, now, ticks, broadcast_ids, schedule_ids, bc, hist, bhist>>

CronReturn(l) == [Response("cron", "Processed") EXCEPT !.status = 200,
                     !.n = Len(l.posts_to_send), !.calls = l.engine_calls]

\* one turn of the for loop: broadcast_message for the i-th due post, any
\* exception of it caught and logged; after the last turn the write follows
cron_send(p, fails, notify_ok) ==
    /\ At(p, "cron_send")
    /\ LET post == loc[p].posts_to_send[loc[p].i]
           l == [loc[p] EXCEPT !.i = @ + 1, !.engine_calls = Append(@, post.schedule_id)]
       IN  /\ broadcast_message(post.message_data, fails, notify_ok)
           /\ hist' = hist_dispatched(hist, post.schedule_id)
           /\ IF l.i <= Len(l.posts_to_send)
              THEN Goto(p, "cron_send", l)
              ELSE Goto(p, "cron_persist", l)
           /\ UNCHANGED last
    /\ UNCHANGED <<channels, watermark, scheduled_posts, user_state, user_state_exp, now,
                   ticks, schedule_ids>>

\* kv.set("wavebot:scheduled_posts", json.dumps(remaining_posts)) and the return
cron_persist(p) ==
    /\ At(p, "cron_persist")
    /\ scheduled_posts' = loc[p].remaining_posts
    /\ last' = CronReturn(loc[p])
    /\ Done(p)
    /\ UNCHANGED <<channels, watermark, broadcasts, user_state, user_state_exp,
                   broadcast_rec, now, ticks, broadcast_ids, schedule_ids, bc, hist, bhist>>

\* ------------------------------------------------------------ specification
Deliver ==
    /\ ~Quiet
    /\ bc' = NoBroadcast
    /\ last' = NoResponse
    /\ UNCHANGED <<channels, watermark, scheduled_posts, broadcasts, user_state,
                   user_state_exp, broadcast_rec, now, ticks, broadcast_ids, schedule_ids, pc, loc, hist, bhist>>

TickSteps == {MINUTE, STATE_TTL, BROADCAST_TTL}

\* what the admin may type after /set_watermark: nothing, one word of each of
\* the three markup characters, a plain word, two words
WatermarkArgs == {<<>>, << <<"&">> >>, << <<"<">> >>, << <<">">> >>, << <<"w">> >>,
                  << <<"a">>, <<"<", "b", ">">> >>}

\* every handler
Next ==
    \/ Deliver
    \/ \E d \in TickSteps : Tick(d)
    \/ \E p \in Procs : cancel_command(p)
    \/ \E p \in Procs, c \in Handles : add_channel_command(p, <<c>>)
    \/ \E p \in Procs, c \in Handles : remove_channel_command(p, <<c>>)
    \/ \E p \in Procs, args \in WatermarkArgs : set_watermark_command(p, args)
    \/ \E p \in Procs : remove_watermark_command(p)
    \/ \E p \in Procs : schedule_command(p)
    \/ \E p \in Procs, m \in Messages : process_message(p, m)
    \/ \E p \in Procs : enqueue_write(p)
    \/ \E p \in Procs : button_broadcast_now(p)
    \/ \E p \in Procs, fails \in SUBSET Range(channels), notify_ok \in BOOLEAN :
          send_now(p, fails, notify_ok)
    \/ \E p \in Procs : button_broadcast_schedule(p)
    \/ \E p \in Procs : button_broadcast_cancel(p)
    \/ \E p \in Procs, id \in DOMAIN bhist \cap DOMAIN broadcast_rec :
          \E fails \in SUBSET Range(broadcast_rec[id].entries) : button_delete(p, id, fails)
    \/ \E p \in Procs, id \in DOMAIN bhist \ DOMAIN broadcast_rec : button_delete(p, id, {})
    \/ \E p \in Procs, id \in 1..schedule_ids : button_cancel_scheduled(p, id)
    \/ \E p \in Procs : cancel_write(p)
    \/ \E p \in Procs : cron_job_runner(p)
    \/ \E p \in Procs, fails \in SUBSET Range(channels), notify_ok \in BOOLEAN :
          cron_send(p, fails, notify_ok)
    \/ \E p \in Procs : cron_persist(p)

\* one invocation at a time
Spec == Init /\ [][Next]_vars

\* the session is in one of the two steps of the /schedule conversation
Scheduling == action_of(get_user_state) \in {"awaiting_schedule_time", "awaiting_schedule_message"}

\* One invocation at a time; the admin registers the handles in their order and
\* removes the one registered last, sends messages, confirms or cancels them,
\* and retracts broadcasts; the clock moves by the retention of a record;
\* nothing is scheduled.
NextInteractive ==
    \/ Deliver
    \/ Tick(BROADCAST_TTL)
    \/ \E p \in Procs : cancel_command(p)
    \/ \E p \in Procs :
          Len(channels) < MaxChannels /\ add_channel_command(p, <<AllHandles[Len(channels) + 1]>>)
    \/ \E p \in Procs : channels # <<>> /\ remove_channel_command(p, <<channels[Len(channels)]>>)
    \/ \E p \in Procs, m \in BroadcastMessages : process_message(p, m)
    \/ \E p \in Procs : button_broadcast_now(p)
    \/ \E p \in Procs, fails \in SUBSET Range(channels) : send_now(p, fails, TRUE)
    \/ \E p \in Procs : button_broadcast_cancel(p)
    \/ \E p \in Procs, id \in DOMAIN bhist \cap DOMAIN broadcast_rec :
          \E fails \in SUBSET Range(broadcast_rec[id].entries) : button_delete(p, id, fails)
    \/ \E p \in Procs, id \in DOMAIN bhist \ DOMAIN broadcast_rec : button_delete(p, id, {})

SpecInteractive == Init /\ [][NextInteractive]_vars

\* One invocation at a time; the admin registers a channel, goes through the
\* /schedule conversation with a time and then a text, and cancels posts; cron
\* runs.
NextScheduled ==
    \/ Deliver
    \/ Tick(MINUTE)
    \/ \E p \in Procs : add_channel_command(p, <<AllHandles[1]>>)
    \/ \E p \in Procs : schedule_command(p)
    \/ \E p \in Procs, m \in TimedMessages :
          action_of(get_user_state) = "awaiting_schedule_time" /\ process_message(p, m)
    \/ \E p \in Procs :
          /\ action_of(get_user_state) = "awaiting_schedule_message"
          /\ process_message(p, TextMessage(<<"h", "i">>))
    \/ \E p \in Procs : enqueue_write(p)
    \/ \E p \in Procs, id \in 1..schedule_ids : button_cancel_scheduled(p, id)
    \/ \E p \in Procs : cancel_write(p)
    \/ \E p \in Procs : cron_job_runner(p)
    \/ \E p \in Procs, fails \in SUBSET Range(channels), notify_ok \in BOOLEAN :
          cron_send(p, fails, notify_ok)
    \/ \E p \in Procs : cron_persist(p)

SpecScheduled == Init /\ [][NextScheduled]_vars

\* One invocation at a time; the admin registers channels, broadcasts a text and
\* schedules one, while somebody else sends commands and messages to the bot
\* and presses inline buttons that call back with each kind of data.
NextStranger ==
    \/ Deliver
    \/ \E p \in Procs :
          Len(channels) < MaxChannels /\ add_channel_command(p, <<AllHandles[Len(channels) + 1]>>)
    \/ \E p \in Procs : schedule_command(p)
    \/ \E p \in Procs :
          /\ action_of(get_user_state) = "awaiting_schedule_time"
          /\ process_message(p, TextMessage(<<"1", "m">>))
    \/ \E p \in Procs :
          /\ action_of(get_user_state) # "awaiting_schedule_time"
          /\ process_message(p, TextMessage(<<"h", "i">>))
    \/ \E p \in Procs : enqueue_write(p)
    \/ \E p \in Procs : button_broadcast_now(p)
    \/ \E p \in Procs : send_now(p, {}, TRUE)
    \/ \E p \in Procs, op \in GatedHandlers : not_admin_return(p, Stranger, op)
    \/ \E p \in Procs : button_broadcast_now_by(p, Stranger)
    \/ \E p \in Procs : button_broadcast_schedule_by(p, Stranger)
    \/ \E p \in Procs : button_broadcast_cancel_by(p, Stranger)
    \/ \E p \in Procs, id \in DOMAIN broadcast_rec : button_delete_by(p, Stranger, id, {})
    \/ \E p \in Procs, id \in 1..schedule_ids : button_cancel_scheduled_by(p, Stranger, id)
    \/ \E p \in Procs : cancel_write(p)

SpecStranger == Init /\ [][NextStranger]_vars

\* what the admin may type after /addchannel and /removechannel: nothing, a
\* handle, or a name without the '@'
RegistryHandles == {AllHandles[i] : i \in 1..(MaxChannels + 1)}
NoSigil == <<"a">>
ChannelArgs == {<<>>, <<NoSigil>>} \cup {<<c>> : c \in RegistryHandles}

\* One invocation at a time; the admin adds and removes channels in any order,
\* with and without an argument.
NextChannels ==
    \/ Deliver
    \/ \E p \in Procs, args \in ChannelArgs : add_channel_command(p, args)
    \/ \E p \in Procs, args \in ChannelArgs : remove_channel_command(p, args)

SpecChannels == Init /\ [][NextChannels]_vars

\* the answers to the question for a time: a duration, a duration of no
\* length and a plain text
SessionMessages == {TextMessage(<<"1", "m">>), TextMessage(<<"0", "m">>),
                    TextMessage(<<"h", "i">>)}

\* One invocation at a time; the admin registers a channel and walks through
\* the conversations -- /schedule, a message, the three buttons under it,
\* /cancel -- in any order, answering the question for a time with one of
\* SessionMessages, while the clock moves by a minute or by the lifetime of the
\* session record.
NextSession ==
    \/ Deliver
    \/ Tick(MINUTE)
    \/ Tick(STATE_TTL)
    \/ \E p \in Procs : add_channel_command(p, <<AllHandles[1]>>)
    \/ \E p \in Procs : schedule_command(p)
    \/ \E p \in Procs, m \in SessionMessages :
          action_of(get_user_state) = "awaiting_schedule_time" /\ process_message(p, m)
    \/ \E p \in Procs :
          /\ action_of(get_user_state) # "awaiting_schedule_time"
          /\ process_message(p, TextMessage(<<"h", "i">>))
    \/ \E p \in Procs : enqueue_write(p)
    \/ \E p \in Procs : cancel_command(p)
    \/ \E p \in Procs : button_broadcast_now(p)
    \/ \E p \in Procs : send_now(p, {}, TRUE)
    \/ \E p \in Procs : button_broadcast_schedule(p)
    \/ \E p \in Procs : button_broadcast_cancel(p)

SpecSession == Init /\ [][NextSession]_vars

\* ---- the answers to the question for a time, built from their parts
RECURSIVE digits(_)
\* the decimal numeral of n
digits(n) == IF n < 10 THEN <<DigitChars[n + 1]>> ELSE digits(n \div 10) \o <<DigitChars[(n % 10) + 1]>>
two_digits(n) == IF n < 10 THEN <<"0">> \o digits(n) ELSE digits(n)

\* the dates an answer may carry: the day before 2025-09-28, that day, the day
\* after, and a day no calendar has; days counts from 1970-01-01
NoDate == [y |-> 0, m |-> 0, d |-> 0, days |-> NoTime]
Dates == {[y |-> 2025, m |-> 9, d |-> 27, days |-> 20358],
          [y |-> 2025, m |-> 9, d |-> 28, days |-> 20359],
          [y |-> 2025, m |-> 9, d |-> 29, days |-> 20360],
          [y |-> 2025, m |-> 2, d |-> 30, days |-> NoTime]}
DateFormats == {"%m/%d/%Y", "%Y-%m-%d"}

\* a time of day, with or without am/pm, alone or after a date in one of the
\* two formats
ClockInputs ==
    [h : {0, 9, 12, 13, 24}, m : {0, 59, 60}, period : {<<>>, <<"a", "m">>, <<"p", "m">>},
     date : {NoDate}, format : {"none"}]
    \cup [h : {0, 9, 12, 13, 24}, m : {0, 59, 60},
          period : {<<>>, <<"a", "m">>, <<"p", "m">>}, date : Dates, format : DateFormats]

render_date(date, format) ==
    IF format = "%m/%d/%Y"
    THEN digits(date.m) \o <<"/">> \o digits(date.d) \o <<"/">> \o digits(date.y) \o <<" ">>
    ELSE IF format = "%Y-%m-%d"
    THEN digits(date.y) \o <<"-">> \o two_digits(date.m) \o <<"-">> \o two_digits(date.d)
         \o <<" ">>
    ELSE <<>>

render_clock(x) ==
    render_date(x.date, x.format) \o digits(x.h) \o <<":">> \o two_digits(x.m)
    \o (IF x.period = <<>> THEN <<>> ELSE <<" ">> \o x.period)

\* a number, a letter, and what may follow the two
DurationInputs == [n : {0, 1, 10, 90}, unit : {"m", "h", "d", "x"}, tail : {<<>>, <<"x">>}]
render_duration(x) == digits(x.n) \o <<x.unit>> \o x.tail

TimeTexts ==
    {render_clock(x) : x \in ClockInputs} \cup {render_duration(x) : x \in DurationInputs}
    \cup {<<"a", "b", "c">>, <<"1", "0">>}

\* the clock when the question is asked: 2025-09-28 at 09:00:00 and at 10:00:30
\* in UTC+3, and 00:30:00 of the next day there, which is still the 28th in UTC
ParseNows == {20359 * DAY + 6 * HOUR, 20359 * DAY + 7 * HOUR + 30, 20359 * DAY + 21 * HOUR + 30 * MINUTE}

InitParse ==
    /\ channels = <<>>
    /\ watermark = NoText
    /\ scheduled_posts = <<>>
    /\ broadcasts = 0
    /\ user_state = EmptyDict
    /\ user_state_exp = 0
    /\ broadcast_rec = EmptyDict
    /\ now \in ParseNows
    /\ ticks = 0
    /\ broadcast_ids = 0
    /\ schedule_ids = 0
    /\ bc = NoBroadcast
    /\ last = NoResponse
    /\ hist = EmptyDict
    /\ bhist = EmptyDict
    /\ pc = [p \in SeqProcs |-> "idle"]
    /\ loc = [p \in SeqProcs |-> Loc0]

\* One invocation at a time; the admin opens the /schedule conversation and
\* answers the question for a time with one of TimeTexts.
NextParse ==
    \/ Deliver
    \/ \E p \in Procs : get_user_state = EmptyDict /\ schedule_command(p)
    \/ \E p \in Procs, text \in TimeTexts :
          action_of(get_user_state) = "awaiting_schedule_time"
          /\ process_message(p, TextMessage(text))

SpecParse == InitParse /\ [][NextParse]_vars

\* the invocation that serves the webhook and the one that serves cron, where
\* a specification gives each of the two its own
Webhook == "p1"
Cron == "p2"

\* The handlers that read and write the queue, with two invocations that may
\* overlap; no channel is registered, so every fan-out ends at once.
NextRace ==
    \/ Deliver
    \/ Tick(MINUTE)
    \/ schedule_command(Webhook)
    \/ Scheduling /\ process_message(Webhook, TextMessage(<<"1", "m">>))
    \/ enqueue_write(Webhook)
    \/ \E id \in 1..schedule_ids : button_cancel_scheduled(Webhook, id)
    \/ cancel_write(Webhook)
    \/ cron_job_runner(Cron)
    \/ cron_send(Cron, {}, TRUE)
    \/ cron_persist(Cron)

SpecRace == InitRace /\ [][NextRace]_vars

\* Two invocations of which only cron runs may overlap: a webhook handler that
\* reads or writes the queue starts when nothing else is in flight, and a cron
\* run does not start while such a handler is.
NoOtherInFlight(p) == \A q \in Procs \ {p} : pc[q] = "idle"
NoWebhookInFlight(p) == \A q \in Procs \ {p} : pc[q] \in {"idle", "cron_send", "cron_persist"}

NextCronOverlap ==
    \/ Deliver
    \/ Tick(MINUTE)
    \/ \E p \in Procs : schedule_command(p)
    \/ \E p \in Procs :
          Scheduling /\ NoOtherInFlight(p) /\ process_message(p, TextMessage(<<"1", "m">>))
    \/ \E p \in Procs : enqueue_write(p)
    \/ \E p \in Procs, id \in 1..schedule_ids :
          NoOtherInFlight(p) /\ button_cancel_scheduled(p, id)
    \/ \E p \in Procs : cancel_write(p)
    \/ \E p \in Procs : NoWebhookInFlight(p) /\ cron_job_runner(p)
    \/ \E p \in Procs : cron_send(p, {}, TRUE)
    \/ \E p \in Procs : cron_persist(p)

SpecCronOverlap == InitRace /\ [][NextCronOverlap]_vars

\* =================================================================== properties
\* what the properties read off a send or delete call list
call_targets(calls) == [i \in 1..Len(calls) |-> calls[i].chat_id]
ok_calls(calls) == {i \in 1..Len(calls) : calls[i].ok}
recorded(calls, message_id) ==
    [i \in 1..Len(SelectSeq(calls, LAMBDA c : c.ok)) |->
        [chat_id |-> SelectSeq(calls, LAMBDA c : c.ok)[i].chat_id, message_id |-> message_id]]

\* a payload one of the four send primitives can carry
Sendable(message_data) ==
    \/ HasFile(message_data.photo_file_id)
    \/ HasFile(message_data.video_file_id)
    \/ HasFile(message_data.document_file_id)
    \/ HasText(message_data.text)

\* the broadcast engine has just run over a non-empty registry
Broadcasting == bc # NoBroadcast /\ channels # <<>>

\* the step in which the broadcast engine runs
BroadcastStep == bc = NoBroadcast /\ bc' # NoBroadcast

C2_OneRecordPerSuccessfulBroadcast ==
    [][(BroadcastStep /\ ok_calls(bc'.calls) # {}) =>
          /\ bc'.broadcast_id \notin DOMAIN broadcast_rec
          /\ DOMAIN broadcast_rec' = DOMAIN broadcast_rec \cup {bc'.broadcast_id}
          /\ \A k \in DOMAIN broadcast_rec : broadcast_rec'[k] = broadcast_rec[k]
          /\ broadcast_rec'[bc'.broadcast_id].entries = recorded(bc'.calls, bc'.broadcast_id)
          /\ broadcasts' = broadcasts + 1]_vars

\* a second broadcast reached one of two channels: one entry, counter 2
C2_Witness ==
    /\ bc.kind = "sent"
    /\ Len(bc.calls) = 2
    /\ bc.calls[1].ok
    /\ ~bc.calls[2].ok
    /\ Len(broadcast_rec[bc.broadcast_id].entries) = 1
    /\ broadcasts = 2

\* C3: a broadcast that reaches no channel, because the registry is empty or
\* every send fails, creates no record and leaves the counter as it was; over an
\* empty registry it makes no delivery attempt.
C3_NothingSentNothingStored ==
    [][(BroadcastStep /\ ok_calls(bc'.calls) = {}) =>
          /\ broadcast_rec' = broadcast_rec
          /\ broadcasts' = broadcasts
          /\ (channels = <<>> => bc'.calls = <<>>)]_vars

\* both of two sends failed
C3_Witness ==
    /\ bc.kind = "not_sent"
    /\ Len(bc.calls) = 2
    /\ ok_calls(bc.calls) = {}

\* the step in which a retract answers
RetractStep == last = NoResponse /\ last'.op = "delete"

\* C4: a retract of a broadcast id whose record exists makes exactly one delete
\* attempt per recorded pair, in order, whatever attempts fail; it reports the
\* number of attempts that went through; afterwards the record is absent.
C4_RetractAttemptsEveryEntry ==
    [][(RetractStep /\ last'.id \in DOMAIN broadcast_rec) =>
          /\ [i \in 1..Len(last'.calls) |->
                 [chat_id |-> last'.calls[i].chat_id,
                  message_id |-> last'.calls[i].message_id]]
               = broadcast_rec[last'.id].entries
          /\ last'.n = Cardinality(ok_calls(last'.calls))
          /\ last'.reply = "deleted"
          /\ last'.id \notin DOMAIN broadcast_rec']_vars

\* the first of two deletes failed, the second went through, the record is gone
C4_Witness ==
    /\ last.op = "delete"
    /\ Len(last.calls) = 2
    /\ ~last.calls[1].ok
    /\ last.calls[2].ok
    /\ last.n = 1
    /\ last.id \notin DOMAIN broadcast_rec

\* C5: a retract of a broadcast id whose record is absent reports the broadcast
\* unavailable, makes no delete call and changes nothing in the store; a retract
\* of an id that was retracted before makes no delete call.
C5_RetractIsOneShot ==
    [][RetractStep =>
          /\ (last'.id \notin DOMAIN broadcast_rec =>
                 /\ last'.reply = "unavailable"
                 /\ last'.calls = <<>>
                 /\ UNCHANGED kv_vars)
          /\ (bhist[last'.id].retracted => last'.calls = <<>>)]_vars

\* the second retract of an id, before any record could have expired
C5_Witness ==
    /\ last.op = "delete"
    /\ last.reply = "unavailable"
    /\ bhist[last.id].retracted
    /\ ticks = 0

\* C6 as the specification states it: in a cron run the queue is overwritten with
\* the remaining posts before the broadcast engine is invoked for a due post.
C6_PersistBeforeDispatch ==
    \A p \in Procs :
        loc[p].engine_calls # <<>> => scheduled_posts = loc[p].remaining_posts

\* the positions of the posts of a queue that are due at time t
DueIdx(posts, t) == {k \in 1..Len(posts) : posts[k].schedule_time_utc <= t}

\* sub is what posts holds at the positions idx, in the order of posts
IsSelection(sub, posts, idx) ==
    /\ Len(sub) = Cardinality(idx)
    /\ \E f \in [1..Len(sub) -> idx] :
          /\ \A i, j \in 1..Len(sub) : i < j => f[i] < f[j]
          /\ \A i \in 1..Len(sub) : sub[i] = posts[f[i]]

schedule_ids_of(posts) == [i \in 1..Len(posts) |-> posts[i].schedule_id]

\* the steps of a cron run: invocation p reads the queue and goes on to send,
\* a run returns from where it read, invocation p returns after its write
CronReads(p) == pc[p] = "idle" /\ pc'[p] = "cron_send"
CronReturnsEarly == pc' = pc /\ last = NoResponse /\ last'.op = "cron"
CronCompletes(p) == pc[p] = "cron_persist" /\ pc'[p] = "idle"

\* C7: a cron run splits the queue it reads at its time now into the posts with
\* time <= now and the posts with time > now, each in queue order; when it
\* completes, the broadcast engine has been invoked exactly once for each due
\* post, in that order, and the stored queue is the remaining posts.
C7_CronPartition ==
    [][\A p \in Procs :
          /\ CronReads(p) =>
                /\ loc'[p].all_posts = scheduled_posts
                /\ loc'[p].now_utc = now
          /\ CronCompletes(p) =>
                /\ IsSelection(loc[p].posts_to_send, loc[p].all_posts,
                               DueIdx(loc[p].all_posts, loc[p].now_utc))
                /\ IsSelection(scheduled_posts', loc[p].all_posts,
                               (1..Len(loc[p].all_posts))
                                   \ DueIdx(loc[p].all_posts, loc[p].now_utc))
                /\ last'.calls = schedule_ids_of(loc[p].posts_to_send)
                /\ last'.n = Len(loc[p].posts_to_send)]_vars

\* a run over a queue of two posts dispatched the second, which was due, and
\* kept the first, which was not
C7_Witness ==
    /\ last.op = "cron"
    /\ Len(last.calls) = 1
    /\ Len(scheduled_posts) = 1
    /\ scheduled_posts[1].schedule_id < last.calls[1]
    /\ scheduled_posts[1].schedule_time_utc > now

\* C8: a cron run over an empty queue, or a queue with no due post, returns the
\* success status without invoking the broadcast engine and leaves the queue,
\* the broadcast records and the counter as they were.
C8_CronNoOp ==
    [][/\ CronReturnsEarly =>
             /\ last'.status = 200
             /\ last'.calls = <<>>
             /\ bc' = NoBroadcast
             /\ UNCHANGED <<scheduled_posts, broadcast_rec, broadcasts>>
       /\ \A p \in Procs : CronReads(p) => DueIdx(scheduled_posts, now) # {}]_vars

\* a run over a queue that holds a post, none due, has returned
C8_Witness ==
    /\ last.op = "cron"
    /\ last.status = 200
    /\ last.n = 0
    /\ scheduled_posts # <<>>
    /\ \A p \in Procs : pc[p] = "idle"

\* an acknowledged post that is in the queue no more, was never handed to the
\* broadcast engine and was not cancelled
Lost(id) ==
    /\ hist[id].acked
    /\ ~hist[id].cancelled
    /\ hist[id].dispatched = 0
    /\ id \notin Range(schedule_ids_of(scheduled_posts))

\* C9: when only cron runs overlap, an acknowledged post stays in the queue
\* until it has been handed to the broadcast engine or cancelled; a cron run
\* that finds a due post does not return early, and when it completes every
\* post that was due in the queue it read has been handed over at least once.
C9_AtLeastOnce ==
    [][/\ \A id \in DOMAIN hist' : ~Lost(id)'
       /\ CronReturnsEarly => DueIdx(scheduled_posts, now) = {}
       /\ \A p \in Procs :
             /\ CronReads(p) => loc'[p].all_posts = scheduled_posts /\ loc'[p].now_utc = now
             /\ CronCompletes(p) =>
                   \A k \in DueIdx(loc[p].all_posts, loc[p].now_utc) :
                       hist'[loc[p].all_posts[k].schedule_id].dispatched >= 1]_vars

\* two overlapping cron runs have both handed over the same post
C9_Witness ==
    \E id \in DOMAIN hist :
        /\ hist[id].dispatched = 2
        /\ id \notin Range(schedule_ids_of(scheduled_posts))
        /\ \A p \in Procs : pc[p] = "idle"

\* C10: a post can be lost only when another invocation was in flight at the
\* moment its enqueue wrote the queue; and a post that is lost while nothing is
\* in flight stays lost.
C10_LostOnlyByOverlap ==
    [][/\ \A id \in DOMAIN hist' : Lost(id)' => hist'[id].raced_with # {}
       /\ \A id \in DOMAIN hist :
             (Lost(id) /\ \A p \in Procs : pc[p] = "idle") => Lost(id)']_vars

\* the enqueue of a post was acknowledged while a cron run was in flight; the
\* run has ended, nothing is in flight, and the post is lost
C10_Witness ==
    \E id \in DOMAIN hist :
        /\ Lost(id)
        /\ hist[id].raced_with # {}
        /\ hist[id].raced_with \subseteq {"cron_send", "cron_persist"}
        /\ \A p \in Procs : pc[p] = "idle"

\* ------------------------------------------------------------ admin gate
\* C11: Whatever a user other than the configured admin sends -- a command, a
\* message, an inline-button callback -- the handler gives no response, makes no
\* transport call and leaves the stored state as it was.
C11_NonAdminIgnored ==
    [][(last'.user # ADMIN_USER_ID /\ last' # last)
         => /\ last'.reply = "none"
            /\ last'.calls = <<>>
            /\ bc' = NoBroadcast
            /\ UNCHANGED kv_vars]_vars

\* somebody else than the admin has retracted a broadcast from the channels
C11_Witness ==
    /\ last.user = Stranger
    /\ last.op = "delete"
    /\ last.reply = "deleted"
    /\ last.n > 0
    /\ last.id \notin DOMAIN broadcast_rec

\* ------------------------------------------------------- channel registry
NoDuplicates(l) == \A i, j \in 1..Len(l) : l[i] = l[j] => i = j
PositionIn(l, x) == CHOOSE i \in 1..Len(l) : l[i] = x

\* the handles of both lists stand in the same order in the two, and those only
\* in the second come after all of the first
KeepsOrder(l1, l2) ==
    /\ \A x, y \in Range(l1) \cap Range(l2) :
          PositionIn(l1, x) < PositionIn(l1, y) <=> PositionIn(l2, x) < PositionIn(l2, y)
    /\ \A x \in Range(l1) \cap Range(l2), y \in Range(l2) \ Range(l1) :
          PositionIn(l2, x) < PositionIn(l2, y)

AddStep == last = NoResponse /\ last'.op = "addchannel"
RemoveStep == last = NoResponse /\ last'.op = "removechannel"
HasSigil(args) == args # <<>> /\ args[1] # <<>> /\ args[1][1] = "@"

\* C12: The registry never holds a handle twice and keeps the order in which
\* the handles were added; adding a valid handle that is absent puts it at the
\* end, once; adding a handle that is present answers already-registered and
\* leaves the registry as it was.
C12_RegistryAdd ==
    [][/\ NoDuplicates(channels')
       /\ KeepsOrder(channels, channels')
       /\ (AddStep /\ HasSigil(last'.args))
            => IF last'.args[1] \in Range(channels)
               THEN last'.reply = "already_registered" /\ channels' = channels
               ELSE /\ last'.reply = "registered"
                    /\ channels' = Append(channels, last'.args[1])]_vars

\* a second add of a handle that is not the last of a registry of several
C12_Witness ==
    /\ last.op = "addchannel"
    /\ last.reply = "already_registered"
    /\ Len(channels) > 1
    /\ last.args[1] = channels[1]

\* C13: A rejected registry operation leaves the registry as it was -- an add
\* of a name without '@', an add or remove without argument, a remove of a
\* handle that is not registered (answered not-found); a remove of a registered
\* handle takes exactly that handle out and keeps the others in their order.
C13_RegistryRejects ==
    [][/\ (AddStep /\ last'.args = <<>>)
            => last'.reply = "usage" /\ channels' = channels
       /\ (AddStep /\ last'.args # <<>> /\ ~HasSigil(last'.args))
            => last'.reply = "invalid_name" /\ channels' = channels
       /\ (RemoveStep /\ last'.args = <<>>)
            => last'.reply = "usage" /\ channels' = channels
       /\ (RemoveStep /\ last'.args # <<>> /\ last'.args[1] \notin Range(channels))
            => last'.reply = "not_found" /\ channels' = channels
       /\ (RemoveStep /\ last'.args # <<>> /\ last'.args[1] \in Range(channels))
            => /\ last'.reply = "removed"
               /\ channels' = SelectSeq(channels, LAMBDA c : c # last'.args[1])
               /\ Len(channels') = Len(channels) - 1]_vars

\* a name without '@' offered to a registry that holds channels
C13_Witness ==
    /\ last.op = "addchannel"
    /\ last.reply = "invalid_name"
    /\ last.args = <<NoSigil>>
    /\ Len(channels) > 1

\* ------------------------------------------------------------ conversations
\* the admin's message is handled and answered in this step, the session
\* having been in the given state
MessageStep(was) == last = NoResponse /\ last'.op = "message" /\ last'.was = was

\* the text resolves to a time: the absolute parser gives one, or the relative
\* parser gives a duration that is not of zero length
Resolves(text, now_utc) ==
    \/ parse_datetime_eat(text, now_utc) # NoTime
    \/ parse_relative_time(text) \notin {NoTime, 0}
ResolvedTime(text, now_utc) ==
    IF parse_datetime_eat(text, now_utc) # NoTime THEN parse_datetime_eat(text, now_utc)
    ELSE now_utc + parse_relative_time(text)

EnqueueReads(p) == pc[p] = "idle" /\ pc'[p] = "enqueue_write"
\* invocation p writes the queue and answers
EnqueueWrites(p) == pc[p] = "enqueue_write" /\ pc'[p] = "idle"

\* C15: In awaiting_schedule_message the next message puts exactly one post at
\* the end of the queue -- with an id no post had before, the time the session
\* stored and the payload of that message -- leaves the posts before it as
\* they were, and leaves no session record.
C15_EnqueueAppendsOne ==
    [][\A p \in Procs :
         /\ EnqueueReads(p)
              => /\ action_of(get_user_state) = "awaiting_schedule_message"
                 /\ loc'[p].state.schedule_time_utc = get_user_state.schedule_time_utc
                 /\ loc'[p].message_data = extract_message_data(TextMessage(<<"h", "i">>))
                 /\ UNCHANGED kv_vars
         /\ EnqueueWrites(p)
              => /\ Len(scheduled_posts') = Len(scheduled_posts) + 1
                 /\ SubSeq(scheduled_posts', 1, Len(scheduled_posts)) = scheduled_posts
                 /\ scheduled_posts'[Len(scheduled_posts')].schedule_id \notin DOMAIN hist
                 /\ \A i \in 1..Len(scheduled_posts) :
                       scheduled_posts[i].schedule_id
                         # scheduled_posts'[Len(scheduled_posts')].schedule_id
                 /\ scheduled_posts'[Len(scheduled_posts')].schedule_time_utc
                       = loc[p].state.schedule_time_utc
                 /\ scheduled_posts'[Len(scheduled_posts')].message_data = loc[p].message_data
                 /\ user_state' = EmptyDict
                 /\ last'.reply = "scheduled"]_vars

\* a second post has been queued behind the first
C15_Witness ==
    /\ last.op = "message"
    /\ last.reply = "scheduled"
    /\ Len(scheduled_posts) = 2
    /\ scheduled_posts[1].schedule_id # scheduled_posts[2].schedule_id
    /\ user_state = EmptyDict

SessionStates == {None, "expired", "awaiting_schedule_time", "awaiting_schedule_message",
                  "confirm_broadcast"}
CancelStep == last = NoResponse /\ last'.op \in {"cancel", "broadcast_cancel"}

\* C16: /cancel and the cancel button, in whatever state the session is, leave
\* no session record, cause no broadcast and leave the queue, the registry and
\* the broadcast counter as they were.
C16_CancelFromAnyState ==
    [][CancelStep
         => /\ last'.was \in SessionStates
            /\ last'.reply = "cancelled"
            /\ user_state' = EmptyDict
            /\ user_state_exp' <= now'
            /\ bc' = NoBroadcast
            /\ broadcast_ids' = broadcast_ids
            /\ UNCHANGED <<scheduled_posts, channels, broadcasts, broadcast_rec, watermark>>
            /\ pc' = pc]_vars

\* the cancel button pressed while the conversation waited for the message of
\* a scheduled post, with a post queued and a broadcast counted
C16_Witness ==
    /\ last.op = "broadcast_cancel"
    /\ last.was = "awaiting_schedule_message"
    /\ user_state = EmptyDict
    /\ scheduled_posts # <<>>
    /\ channels # <<>>
    /\ broadcasts > 0

\* the session key holds no live record: the last one written has run out, was
\* deleted, or none was ever written
Lapsed == user_state_exp <= now
AllIdle == \A p \in Procs : pc[p] = "idle"
SessionWritten ==
    user_state' # EmptyDict /\ <<user_state, user_state_exp>>' # <<user_state, user_state_exp>>
HandlerStep(op) == last = NoResponse /\ AllIdle /\ last'.op = op

\* C17: A session record written at time T runs out at T + 600 seconds unless
\* a later transition rewrites it, and from then on reads find none: the next
\* message is taken as a fresh broadcast (the session becomes confirm_broadcast
\* with that message as payload, nothing is enqueued), and the send-now and
\* schedule buttons answer that the request has expired, with no broadcast and
\* no change of the stored state.
C17_SessionExpires ==
    [][/\ SessionWritten => user_state_exp' = now + STATE_TTL
       /\ (now' >= user_state_exp') => user_state' = EmptyDict
       /\ \A p \in Procs :
             (pc[p] = "idle" /\ pc'[p] \in {"enqueue_write", "send_now"}) => ~Lapsed
       /\ (HandlerStep("message") /\ Lapsed)
            => /\ last'.reply = "confirm_prompt"
               /\ user_state' = [action |-> "confirm_broadcast",
                                 message_to_send |->
                                     extract_message_data(TextMessage(last'.args))]
               /\ scheduled_posts' = scheduled_posts
               /\ bc' = NoBroadcast
               /\ pc' = pc
       /\ ((HandlerStep("broadcast_now") \/ HandlerStep("broadcast_schedule")) /\ Lapsed)
            => /\ last'.reply = "expired"
               /\ bc' = NoBroadcast
               /\ broadcast_ids' = broadcast_ids
               /\ pc' = pc
               /\ UNCHANGED kv_vars]_vars

\* the session record of a conversation has run out, and the message that
\* comes next is answered with the confirmation of a fresh broadcast
C17_Witness ==
    /\ last.op = "message"
    /\ last.was = "expired"
    /\ last.reply = "confirm_prompt"
    /\ action_of(get_user_state) = "confirm_broadcast"
    /\ now >= STATE_TTL
    /\ schedule_ids = 0
    /\ scheduled_posts = <<>>

\* the fields a session record of the given action is written with
OwnFields(action) ==
    IF action = "awaiting_schedule_message" THEN {"action", "schedule_time_utc"}
    ELSE IF action = "confirm_broadcast" THEN {"action", "message_to_send"}
    ELSE {"action"}

\* C18 as stated: the session record holds the action tag and the payload of
\* that action, and nothing of the states before it.
C18_RecordHoldsOwnFieldsOnly ==
    user_state # EmptyDict => DOMAIN user_state = OwnFields(user_state.action)

\* C18: A transition merges into the session record: the record then holds the
\* new action tag and that action's payload, and every other field of the live
\* record that was there before, unchanged; fields go only when the record is
\* deleted or runs out.
C18_RecordIsMerged ==
    [][SessionWritten
         => /\ DOMAIN user_state' = DOMAIN get_user_state \cup OwnFields(user_state'.action)
            /\ \A k \in DOMAIN get_user_state \ OwnFields(user_state'.action) :
                  user_state'[k] = get_user_state[k]
            /\ user_state'.action \in {"awaiting_schedule_time", "awaiting_schedule_message",
                                       "confirm_broadcast"}]_vars

\* after the schedule button under a message, the record that waits for the
\* time still holds the message
C18_Witness ==
    /\ last.op = "broadcast_schedule"
    /\ last.reply = "ask_time"
    /\ action_of(get_user_state) = "awaiting_schedule_time"
    /\ "message_to_send" \in DOMAIN get_user_state

\* ------------------------------------------------------------ time answers
\* the hour on the 24-hour clock that the answer x names, NoTime when its hour
\* or minute is out of range
HourOf(x) ==
    IF x.period = <<>>
    THEN IF x.h \in 0..23 /\ x.m \in 0..59 THEN x.h ELSE NoTime
    ELSE IF ~(x.h \in 1..12 /\ x.m \in 0..59) THEN NoTime
    ELSE IF x.period = <<"p", "m">> THEN (IF x.h = 12 THEN 12 ELSE x.h + 12)
    ELSE (IF x.h = 12 THEN 0 ELSE x.h)

\* the moment in UTC+3 that x names, on the day x gives or else on today's
LocalMoment(x, today) ==
    (IF x.date = NoDate THEN today ELSE x.date.days) * DAY + HourOf(x) * HOUR + x.m * MINUTE

\* the UTC time the policy gives the answer x at now_utc, NoTime for a refusal
PolicyTime(x, now_utc) ==
    IF HourOf(x) = NoTime \/ (x.date # NoDate /\ x.date.days = NoTime) THEN NoTime
    ELSE IF x.date = NoDate
    THEN IF LocalMoment(x, (now_utc + EAT_OFFSET) \div DAY) <= now_utc + EAT_OFFSET
         THEN LocalMoment(x, (now_utc + EAT_OFFSET) \div DAY) + DAY - EAT_OFFSET
         ELSE LocalMoment(x, (now_utc + EAT_OFFSET) \div DAY) - EAT_OFFSET
    ELSE IF LocalMoment(x, 0) <= now_utc + EAT_OFFSET THEN NoTime
    ELSE LocalMoment(x, 0) - EAT_OFFSET

Accepted == last'.reply = "ask_message" /\ action_of(user_state') = "awaiting_schedule_message"
Rejected == last'.reply = "bad_time" /\ user_state' = user_state

\* C19: For an answer that is a time of day, alone or with a date: without a
\* date, a time of day not later than now in UTC+3 gives that time on the next
\* local day, a later one that time today; with a date, a moment not later than
\* now is refused, never rolled on; an hour or minute out of range is refused;
\* whatever is accepted is strictly later than now and is stored as the local
\* moment less three hours.
C19_AbsoluteTimePolicy ==
    [][MessageStep("awaiting_schedule_time")
         => /\ \A x \in ClockInputs :
                  render_clock(x) = last'.args
                    => IF PolicyTime(x, now) = NoTime THEN Rejected
                       ELSE /\ Accepted
                            /\ user_state'.schedule_time_utc = PolicyTime(x, now)
            /\ Accepted => user_state'.schedule_time_utc > now]_vars

\* "9:00" answered at 09:00:00 local time is taken for 09:00 of the next day
C19_Witness ==
    /\ last.op = "message"
    /\ last.args = <<"9", ":", "0", "0">>
    /\ now = 20359 * DAY + 6 * HOUR
    /\ last.reply = "ask_message"
    /\ get_user_state.schedule_time_utc = 20360 * DAY + 6 * HOUR

\* C20 as stated: a text is taken as a duration exactly when it is a number
\* followed by m, h or d and nothing else, and then resolves to now plus that
\* many minutes, hours or days; a number with another letter, or with something
\* after the unit, is refused.
C20_DurationIffExactToken ==
    [][MessageStep("awaiting_schedule_time")
         => \A x \in DurationInputs :
               render_duration(x) = last'.args
                 => IF x.unit \in {"m", "h", "d"} /\ x.tail = <<>>
                    THEN /\ Accepted
                         /\ user_state'.schedule_time_utc
                              = now + x.n * (CASE x.unit = "m" -> MINUTE
                                               [] x.unit = "h" -> HOUR
                                               [] x.unit = "d" -> DAY)
                    ELSE Rejected]_vars

\* "10mx" is taken for ten minutes from now
C20_Witness ==
    /\ last.op = "message"
    /\ last.args = <<"1", "0", "m", "x">>
    /\ last.reply = "ask_message"
    /\ get_user_state.schedule_time_utc = now + 10 * MINUTE

\* ------------------------------------------------------------------ watermark
\* the messages the admin broadcasts while a watermark may be set: a text, a
\* photo without caption, a photo with one
WatermarkMessages == {TextMessage(<<"h", "i">>), PhotoMessage, CaptionedPhoto}

\* One invocation at a time; the admin registers a channel, sets and removes
\* the watermark and broadcasts messages at once.
NextWatermark ==
    \/ Deliver
    \/ \E p \in Procs : add_channel_command(p, <<AllHandles[1]>>)
    \/ \E p \in Procs, args \in WatermarkArgs : set_watermark_command(p, args)
    \/ \E p \in Procs : remove_watermark_command(p)
    \/ \E p \in Procs, m \in WatermarkMessages : process_message(p, m)
    \/ \E p \in Procs : button_broadcast_now(p)
    \/ \E p \in Procs : send_now(p, {}, TRUE)

SpecWatermark == Init /\ [][NextWatermark]_vars

\* a character of a text as HTML markup shows it: its entity for the three
\* markup characters, itself otherwise
EntityOf(c) ==
    IF c = "&" THEN <<"&", "a", "m", "p", ";">>
    ELSE IF c = "<" THEN <<"&", "l", "t", ";">>
    ELSE IF c = ">" THEN <<"&", "g", "t", ";">>
    ELSE <<c>>

RECURSIVE Escaped(_)
Escaped(s) == IF s = <<>> THEN <<>> ELSE EntityOf(Head(s)) \o Escaped(Tail(s))

\* the fan-out that has just run went out with a watermark set
WatermarkedFanOut == bc.kind \in {"sent", "not_sent"} /\ HasText(watermark)

\* C21: when a watermark is set, what a broadcast is sent as is its payload with
\* the watermark appended after a blank line, each of &, < and > of the watermark
\* replaced by exactly its own entity and every other character unchanged: at the
\* end of the caption if the payload has one, else at the end of the text if it
\* has one, else as the caption itself.
C21_WatermarkEscapedOnce ==
    WatermarkedFanOut =>
        LET fragment == Escaped(watermark)
        IN  IF HasText(bc.payload.caption)
            THEN bc.sent_as = [bc.payload EXCEPT !.caption = @ \o <<"\n", "\n">> \o fragment]
            ELSE IF HasText(bc.payload.text)
            THEN bc.sent_as = [bc.payload EXCEPT !.text = @ \o <<"\n", "\n">> \o fragment]
            ELSE bc.sent_as = [bc.payload EXCEPT !.caption = fragment]

\* the watermark "<" went out under the text "hi" as "&amp;lt;", which HTML
\* markup shows as "&lt;"
C21_Witness ==
    /\ WatermarkedFanOut
    /\ watermark = <<"<">>
    /\ bc.payload.text = <<"h", "i">>
    /\ bc.sent_as.text = <<"h", "i", "\n", "\n", "&", "a", "m", "p", ";", "l", "t", ";">>

\* ------------------------------------------------- the buttons under a message
SendNowReads(p) == pc[p] = "idle" /\ pc'[p] = "send_now"
SendNowRuns(p) == pc[p] = "send_now" /\ pc'[p] = "idle"
NothingStored == UNCHANGED kv_vars /\ bc' = NoBroadcast /\ broadcast_ids' = broadcast_ids

Payloads ==
    [text : {NoText, <<"t">>}, caption : {NoText, <<"c">>},
     photo_file_id : {None, "ph1"}, video_file_id : {None, "v1"},
     document_file_id : {None, "d1"}, reply_markup_json : {None}]

\* the session holds a message to confirm, with any of Payloads
InitPrimitive ==
    /\ channels = <<>>
    /\ watermark = NoText
    /\ scheduled_posts = <<>>
    /\ broadcasts = 0
    /\ \E message_data \in Payloads :
          user_state = [action |-> "confirm_broadcast", message_to_send |-> message_data]
    /\ user_state_exp = STATE_TTL
    /\ broadcast_rec = EmptyDict
    /\ now = 0
    /\ ticks = 0
    /\ broadcast_ids = 0
    /\ schedule_ids = 0
    /\ bc = NoBroadcast
    /\ last = NoResponse
    /\ hist = EmptyDict
    /\ bhist = EmptyDict
    /\ pc = [p \in SeqProcs |-> "idle"]
    /\ loc = [p \in SeqProcs |-> Loc0]

\* One invocation at a time; the admin registers channels and presses 'send
\* now' under the message; any of the channels may refuse the send.
NextPrimitive ==
    \/ Deliver
    \/ \E p \in Procs :
          Len(channels) < MaxChannels /\ add_channel_command(p, <<AllHandles[Len(channels) + 1]>>)
    \/ \E p \in Procs : button_broadcast_now(p)
    \/ \E p \in Procs, fails \in SUBSET Range(channels) : send_now(p, fails, TRUE)

SpecPrimitive == InitPrimitive /\ [][NextPrimitive]_vars

\* the fields in the order the claim gives them, each with its primitive
FieldOrder == <<"photo", "video", "document", "text">>
PrimitiveOf == [photo |-> "send_photo", video |-> "send_video",
                document |-> "send_document", text |-> "send_message"]
Populated(message_data, field) ==
    IF field = "photo" THEN message_data.photo_file_id # None
    ELSE IF field = "video" THEN message_data.video_file_id # None
    ELSE IF field = "document" THEN message_data.document_file_id # None
    ELSE message_data.text # NoText
PopulatedAt(message_data) == {k \in 1..Len(FieldOrder) : Populated(message_data, FieldOrder[k])}
FirstOf(S) == CHOOSE k \in S : \A j \in S : k <= j
CallsTo(calls, channel) == {i \in 1..Len(calls) : calls[i].chat_id = channel}

\* C23: in a fan-out every channel sees at most one transport call; when the
\* payload has one of photo, video, document, text populated, every channel sees
\* exactly the primitive of the first populated of them in that order; when it
\* has none, no primitive is called, every channel is listed as failed, no
\* broadcast record is written and the counter stays.
C23_OnePrimitiveByFieldOrder ==
    [][\A p \in Procs :
          (SendNowRuns(p) /\ bc'.kind \in {"sent", "not_sent"})
            => LET message_data == bc'.payload
                   fields == PopulatedAt(message_data)
               IN  /\ bc'.registry = channels
                   /\ \A ch \in Range(channels) : Cardinality(CallsTo(bc'.calls, ch)) <= 1
                   /\ fields # {}
                        => /\ Len(bc'.calls) = Len(channels)
                           /\ \A i \in 1..Len(bc'.calls) :
                                 /\ bc'.calls[i].chat_id = channels[i]
                                 /\ bc'.calls[i].method = PrimitiveOf[FieldOrder[FirstOf(fields)]]
                   /\ fields = {}
                        => /\ bc'.calls = <<>>
                           /\ bc'.failed = channels
                           /\ bc'.kind = "not_sent"
                           /\ UNCHANGED <<broadcast_rec, broadcasts>>]_vars

\* a payload with a video, a document and a text but no photo went to two
\* channels as a video, one call each
C23_Witness ==
    /\ bc.kind = "sent"
    /\ bc.payload.photo_file_id = None
    /\ bc.payload.video_file_id # None
    /\ bc.payload.document_file_id # None
    /\ bc.payload.text # NoText
    /\ Len(bc.registry) = 2
    /\ Len(bc.calls) = 2
    /\ \A i \in 1..2 : bc.calls[i].method = "send_video"

\* --------------------------------------------------------------- double submit
\* Two webhook invocations that may overlap; the admin registers channels,
\* sends one message in the whole behaviour and presses 'send now' under it as
\* often as they like; any of the channels may refuse a send.
NextDoubleSubmit ==
    \/ Deliver
    \/ \E p \in Procs :
          Len(channels) < MaxChannels /\ add_channel_command(p, <<AllHandles[Len(channels) + 1]>>)
    \/ \E p \in Procs :
          /\ user_state = EmptyDict /\ broadcast_ids = 0 /\ AllIdle
          /\ process_message(p, TextMessage(<<"h", "i">>))
    \/ \E p \in Procs : button_broadcast_now(p)
    \/ \E p \in Procs, fails \in SUBSET Range(channels) : send_now(p, fails, TRUE)

SpecDoubleSubmit == InitRace /\ [][NextDoubleSubmit]_vars

SendingNow == {p \in Procs : pc[p] = "send_now"}

\* C24: two 'send now' callbacks for one confirm_broadcast session can both
\* read the session before either clears it, and then both invoke the broadcast
\* engine: two fan-outs, two broadcast records, two counter increments for the
\* one captured message.  Nothing else doubles a broadcast: every invocation
\* that read the session fans its payload out once, with one record and one
\* increment, and a second fan-out comes only from an invocation that was
\* already past its read when the first one finished.
C24_DoubleOnlyByOverlap ==
    [][/\ \A p \in Procs :
             SendNowRuns(p)
               => /\ bc'.payload = loc[p].state.message_to_send
                  /\ bc'.kind = "sent"
                       => /\ broadcasts' = broadcasts + 1
                          /\ DOMAIN broadcast_rec' = DOMAIN broadcast_rec \cup {bc'.broadcast_id}
                          /\ bc'.broadcast_id \notin DOMAIN broadcast_rec
                  /\ broadcast_ids >= 1 => user_state = EmptyDict
       /\ broadcasts' + Cardinality(SendingNow') <= Cardinality(Procs)
       /\ \A p \in Procs : (SendNowReads(p) /\ broadcast_ids >= 1) => SendingNow # {}]_vars

\* the message "hi" was captured once and has gone out twice: the second
\* 'send now' ran its fan-out when the first had already cleared the session
C24_Witness ==
    /\ broadcasts = 2
    /\ Cardinality(DOMAIN broadcast_rec) = 2
    /\ bc.kind = "sent"
    /\ bc.broadcast_id = 2
    /\ bc.payload = extract_message_data(TextMessage(<<"h", "i">>))
    /\ last.op = "broadcast_now"
    /\ last.reply = "sending"
    /\ last.was = None

\* ------------------------------------------------------- removal from the queue
\* the post was acknowledged, then cancelled with success or handed to the
\* engine, and the stored queue holds it no more
Removed(id) ==
    /\ id \in DOMAIN hist
    /\ hist[id].cancelled \/ hist[id].dispatched > 0
    /\ id \notin Range(schedule_ids_of(scheduled_posts))

\* this step hands the post to the engine
HandsToEngine(id) ==
    \E p \in Procs :
       /\ pc[p] = "cron_send"
       /\ loc[p].posts_to_send[loc[p].i].schedule_id = id
       /\ loc'[p].engine_calls = Append(loc[p].engine_calls, id)

\* C25: whatever the interleaving of cancel callbacks, enqueues and cron runs,
\* a post that has been removed from the queue, by a cancel that reported
\* success or by cron consumption, is not in the stored queue after any later
\* step and is not handed to the broadcast engine by any later step.
C25_RemovedNeverReturns ==
    [][\A id \in DOMAIN hist :
          Removed(id)
            => /\ id \notin Range(schedule_ids_of(scheduled_posts'))
               /\ ~HandsToEngine(id)]_vars

\* a post whose cancel was answered with success is in the stored queue again,
\* written back by the cron run that had read the queue before the cancel
C25_Witness ==
    \E id \in DOMAIN hist :
       /\ hist[id].cancelled
       /\ hist[id].dispatched = 0
       /\ id \in Range(schedule_ids_of(scheduled_posts))
       /\ AllIdle

\* ------------------------------------------------- the queue, one at a time
CancelReads(p) == pc[p] = "idle" /\ pc'[p] = "cancel_write"
CancelAnswers == last = NoResponse /\ last'.op = "cancel_scheduled"

\* C26: with one invocation at a time, no post is handed to the broadcast engine
\* more than once; no cron run leaves in the queue a post whose time is at or
\* before the time the run read, whether the fan-out of the post reached a
\* channel, reached none or raised; and a cancel of an id that is not in the
\* queue answers not-found and leaves the queue as it was, while a cancel of an
\* id that is in it removes exactly that post.
C26_OneAtATime ==
    [][/\ \A id \in DOMAIN hist' : hist'[id].dispatched <= 1
       /\ CronReturnsEarly => DueIdx(scheduled_posts', now) = {}
       /\ \A p \in Procs :
             /\ CronReads(p) => UNCHANGED scheduled_posts
             /\ (pc[p] = "cron_send" /\ loc'[p] # loc[p])
                  => /\ HandsToEngine(loc[p].posts_to_send[loc[p].i].schedule_id)
                     /\ pc'[p] \in {"cron_send", "cron_persist"}
             /\ CronCompletes(p)
                  => /\ DueIdx(scheduled_posts', loc[p].now_utc) = {}
                     /\ Len(loc[p].engine_calls) = Cardinality(DueIdx(loc[p].all_posts, loc[p].now_utc))
             /\ CancelReads(p) => loc'[p].schedule_id \in Range(schedule_ids_of(scheduled_posts))
       /\ CancelAnswers
            => IF last'.id \in Range(schedule_ids_of(scheduled_posts))
               THEN /\ last'.reply = "cancelled"
                    /\ scheduled_posts' = SelectSeq(scheduled_posts,
                                                    LAMBDA post : post.schedule_id # last'.id)
               ELSE /\ last'.reply = "not_found"
                    /\ UNCHANGED scheduled_posts]_vars

\* a cron run has handed the only post of the queue to the engine, the fan-out
\* reached no channel although one is registered, and the queue is empty; the
\* cancel button of that post then answered not-found
C26_Witness ==
    /\ last.op = "cancel_scheduled"
    /\ last.reply = "not_found"
    /\ last.id = 1
    /\ hist[1].dispatched = 1
    /\ ~hist[1].cancelled
    /\ channels # <<>>
    /\ broadcast_ids = 1
    /\ broadcasts = 0
    /\ scheduled_posts = <<>>

\* ------------------------------------------------------------------ two prompts
\* the two messages of the scenario
MessageA == TextMessage(<<"h", "i">>)
MessageB == PhotoMessage
Pending(message) ==
    awaits_confirmation(get_user_state)
    /\ get_user_state.message_to_send = extract_message_data(message)

\* a prompt of A is on the admin's screen: A is always the first message
PromptShownA == user_state # EmptyDict \/ broadcast_ids > 0

\* One invocation at a time; the admin registers channels, sends message A
\* whenever nothing is pending, may send message B before answering, and
\* presses 'send now' under a prompt of A, or under the prompt of B while B is
\* the pending message; any of the channels may refuse a send.
NextTwoPrompts ==
    \/ Deliver
    \/ \E p \in Procs :
          Len(channels) < MaxChannels /\ add_channel_command(p, <<AllHandles[Len(channels) + 1]>>)
    \/ \E p \in Procs :
          user_state = EmptyDict /\ process_message(p, MessageA)
    \/ \E p \in Procs : Pending(MessageA) /\ process_message(p, MessageB)
    \/ \E p \in Procs :
          /\ PromptShownA
          /\ button_broadcast_now_under(p, ADMIN_USER_ID, extract_message_data(MessageA))
    \/ \E p \in Procs :
          /\ Pending(MessageB)
          /\ button_broadcast_now_under(p, ADMIN_USER_ID, extract_message_data(MessageB))
    \/ \E p \in Procs, fails \in SUBSET Range(channels) : send_now(p, fails, TRUE)

SpecTwoPrompts == Init /\ [][NextTwoPrompts]_vars

\* C27: the payload a 'send now' press hands to the broadcast engine is the
\* message whose confirmation prompt carries the pressed button, and a message
\* received while the session is confirm_broadcast leaves the pending payload as
\* it was.
C27_SendsThePromptedMessage ==
    [][/\ \A p \in Procs : SendNowRuns(p) => bc'.payload = loc[p].prompt
       /\ (HandlerStep("message") /\ last'.was = "confirm_broadcast")
            => get_user_state'.message_to_send = get_user_state.message_to_send]_vars

\* 'send now' pressed under the prompt of "hi" has sent the photo to the channel
C27_Witness ==
    /\ last.op = "broadcast_now"
    /\ last.reply = "sending"
    /\ last.args = extract_message_data(MessageA)
    /\ bc.kind = "sent"
    /\ bc.payload = extract_message_data(MessageB)
    /\ bc.calls[1].method = "send_photo"

====
